---------------------------- MODULE Spec2Model ----------------------------
(***************************************************************************)
(* A model of the ink creature pipeline and of its particle engine.        *)
(*                                                                         *)
(* Numbers.  A JavaScript number that holds a fraction is kept in fixed    *)
(* point: the integer n stands for n / T, T == 10000.  A 32-bit word (the  *)
(* PRNG states, the hashes) is a pair <<hi, lo>> of 16-bit halves, so that *)
(* the wrapping arithmetic of |0, >>>, ^ and Math.imul is computed bit for *)
(* bit without leaving the integers the model checker can hold.            *)
(***************************************************************************)
EXTENDS Integers, Sequences, FiniteSets, TLC

VARIABLES
    args,            \* the arguments of the latest generateCreature call
    creature,        \* its result
    prevCreature,    \* the result of the call before it, when made with the same arguments
    prngState,       \* the state captured by the PRNG closure created last
    sessionsCount,   \* sessions_count of the agent whose maturity is shown
    maturity,        \* getMaturityConfig(sessionsCount)
    particleParams,  \* the params the particle hook is mounted with
    buffers,         \* its typed arrays
    headPositions,   \* headPositions.current
    respawnCounters, \* respawnCounters.current
    time,            \* the time of the latest update call, in seconds
    respawned,       \* the particles the latest update call respawned
    randomSources,   \* the closures of seededRandom created so far
    traitInput,      \* the traits and the seed of the agent described
    traitVector,     \* traitsToVector of them
    lastUpdate,      \* the delta and the flow velocities of the latest update call
    hashInput,       \* the string given to hashString
    hashValue,       \* [seed |-> what hashString returned for it]
    prevHashValue,   \* what the call before returned for the same string
    generator,       \* a seeded PRNG closure: its kind, its state, its calls so far
    drawn,           \* the value its latest call returned
    bodyBuffers,     \* the mesh buffers built for the body of the creature
    flowSample,      \* the noise field sampled at one point, by the CPU and by the shader
    exporter,        \* the state of one useExport hook and of its timers
    animation,       \* the state of one useCreatureAnimation hook
    heads            \* the head of a particle and its respawn pool, as the Float32 values stored

vars ==
    <<args, creature, prevCreature, prngState, sessionsCount, maturity,
      particleParams, buffers, headPositions, respawnCounters, time,
      respawned, randomSources, traitInput, traitVector, lastUpdate,
      hashInput, hashValue, prevHashValue, generator, drawn, bodyBuffers,
      flowSample, exporter, animation, heads>>

creatureVars == <<args, creature, prevCreature, prngState>>
maturityVars == <<sessionsCount, maturity>>
particleVars ==
    <<particleParams, buffers, headPositions, respawnCounters, time,
      respawned, randomSources, lastUpdate>>

traitVars == <<traitInput, traitVector>>
hashVars == <<hashInput, hashValue, prevHashValue>>
randomVars == <<generator, drawn>>
meshVars == <<bodyBuffers>>
viewVars == <<flowSample, exporter, animation, heads>>

None == [undefined |-> TRUE]

\* 1.0 in fixed point.
T == 10000

---------------------------------------------------------------------------
(* 32-bit words                                                            *)

W16 == 65536

\* The word of a non-negative integer below 2^31 (x | 0).
ToWord(n) == <<(n \div W16) % W16, n % W16>>

RECURSIVE XorBits(_, _)
XorBits(a, b) ==
    IF a = 0 THEN b
    ELSE IF b = 0 THEN a
    ELSE (((a % 2) + (b % 2)) % 2) + 2 * XorBits(a \div 2, b \div 2)

\* a ^ b for two bytes, tabulated.
XorByte == [a \in 0..255 |-> [b \in 0..255 |-> XorBits(a, b)]]

\* a ^ b for two 16-bit halves.
Xor16(a, b) ==
    (XorByte[a \div 256][b \div 256] * 256) + XorByte[a % 256][b % 256]

RECURSIVE Or16(_, _)
Or16(a, b) ==
    IF a = 0 THEN b
    ELSE IF b = 0 THEN a
    ELSE (IF (a % 2) + (b % 2) > 0 THEN 1 ELSE 0) + 2 * Or16(a \div 2, b \div 2)

RECURSIVE PowerOfTwo(_)
PowerOfTwo(k) == IF k = 0 THEN 1 ELSE 2 * PowerOfTwo(k - 1)

Pow2Table == [k \in 0..30 |-> PowerOfTwo(k)]

Pow2(k) == Pow2Table[k]

XorW(a, b) == <<Xor16(a[1], b[1]), Xor16(a[2], b[2])>>

\* a | c for a constant c below 2^16.
OrLowW(a, c) == <<a[1], Or16(a[2], c)>>

\* (a + b) | 0
AddW(a, b) ==
    LET lo == a[2] + b[2]
    IN  <<(a[1] + b[1] + (lo \div W16)) % W16, lo % W16>>

\* a >>> k, 0 < k < 16
ShrW(a, k) ==
    <<a[1] \div Pow2(k), (a[2] \div Pow2(k)) + (a[1] % Pow2(k)) * Pow2(16 - k)>>

\* The full 32-bit product of two 16-bit halves, as a word.
Mul16(a, b) ==
    LET p0 == (a % 256) * b
        p1 == (a \div 256) * b
        s  == p0 + (p1 % 256) * 256
    IN  <<((s \div W16) + (p1 \div 256)) % W16, s % W16>>

\* Math.imul(a, b): the low 32 bits of the product.
ImulW(a, b) ==
    LET ll == Mul16(a[2], b[2])
        hl == Mul16(a[1], b[2])
        lh == Mul16(a[2], b[1])
    IN  <<(ll[1] + hl[2] + lh[2]) % W16, ll[2]>>

\* w > 2^31, i.e. (w / 4294967296) > 0.5
AboveHalf(w) == w[1] > 32768 \/ (w[1] = 32768 /\ w[2] > 0)

\* floor(T * w / 2^32): the fixed-point value of w / 4294967296.
WordToFixed(w) == ((w[1] * T) + ((w[2] * T) \div W16)) \div W16

---------------------------------------------------------------------------
(* The seeded PRNG of the body, eye and appendage generators (mulberry32). *)

\* 0x6d2b79f5
MulberryStep == <<27947, 31221>>

\* let state = seed
createSeededRandomShared(seed) == prngState
createSeededRandom(seed) == ToWord(seed)

\* t = Math.imul(state ^ (state >>> 15), 1 | state)
MulberryMix1(s) == ImulW(XorW(s, ShrW(s, 15)), OrLowW(s, 1))

\* t = (t + Math.imul(t ^ (t >>> 7), 61 | t)) ^ t
MulberryMix2(t) == XorW(AddW(t, ImulW(XorW(t, ShrW(t, 7)), OrLowW(t, 61))), t)

\* (t ^ (t >>> 14)) >>> 0
MulberryOut(t) == XorW(t, ShrW(t, 14))

\* The word w that one call of the closure returns (as w / 4294967296) when
\* the call has already advanced the state to s.
RandomOf(s) == MulberryOut(MulberryMix2(MulberryMix1(s)))

\* The state after k calls: state = (state + 0x6d2b79f5) | 0, k times.
RECURSIVE Advance(_, _)
Advance(state, k) == IF k = 0 THEN state ELSE Advance(AddW(state, MulberryStep), k - 1)

\* The word returned by the k-th call (k >= 1) of a closure whose state is `state`.
Draw(state, k) == RandomOf(Advance(state, k))

\* The fixed-point value of the k-th call.
DrawF(state, k) == WordToFixed(Draw(state, k))

\* a + (b - a) * t
lerp(a, b, t) == a + (((b - a) * t) \div T)

\* A result pushed in front of the results of the rest of a loop; the PRNG state is
\* the one the rest of the loop leaves.
Push(first, rest) == [val |-> <<first>> \o rest.val, st |-> rest.st]

Min(a, b) == IF a < b THEN a ELSE b
Max(a, b) == IF a > b THEN a ELSE b

\* Math.round of the fixed-point x, as an integer.
Round(x) == (x + (T \div 2)) \div T

---------------------------------------------------------------------------
(* Maturity (creature/maturity.ts)                                         *)

\* STAGE_THRESHOLDS.<stage>.max
NascentMax == 10
DevelopingMax == 100
MatureMax == 500

getStageElderAtMatureMax(n) ==
    IF n <= NascentMax THEN "nascent"
    ELSE IF n <= DevelopingMax THEN "developing"
    ELSE IF n < MatureMax THEN "mature"
    ELSE "elder"
getStageOffByOne(n) ==
    IF n < NascentMax THEN "nascent"
    ELSE IF n < DevelopingMax THEN "developing"
    ELSE IF n < MatureMax THEN "mature"
    ELSE "elder"
getStage(n) ==
    IF n <= NascentMax THEN "nascent"
    ELSE IF n <= DevelopingMax THEN "developing"
    ELSE IF n <= MatureMax THEN "mature"
    ELSE "elder"

RECURSIVE Digits(_)
Digits(n) == IF n < 10 THEN 1 ELSE 1 + Digits(n \div 10)

RECURSIVE Pow10(_)
Pow10(k) == IF k = 0 THEN 1 ELSE 10 * Pow10(k - 1)

\* floor(y * y / T) for 0 <= y <= 10 * T, without leaving 32 bits.
SquareFixed(y) ==
    LET a == y \div 100
        b == y % 100
    IN  (a * a) + (((2 * a * b * 100) + (b * b)) \div T)

\* The binary digits of log10(y / T), 1 <= y / T < 10, by repeated squaring:
\* the number whose `bits` low bits they are.
RECURSIVE LogBits(_, _)
LogBits(y, bits) ==
    IF bits = 0 THEN 0
    ELSE LET sq == SquareFixed(y)
         IN  IF sq >= 10 * T
             THEN Pow2(bits - 1) + LogBits(sq \div 10, bits - 1)
             ELSE LogBits(sq, bits - 1)

\* Fraction bits kept of Math.log10.
LogFractionBits == 8

\* Math.log10(n) for an integer 1 <= n <= 10^9 / T, in fixed point, to 2^-LogFractionBits.
Log10(n) ==
    LET k == Digits(n) - 1
        y == (n * T) \div Pow10(k)
    IN  (k * T) + ((LogBits(y, LogFractionBits) * T) \div Pow2(LogFractionBits))

getDetailLevel(n) ==
    LET log == Log10(Max(1, n + 1))
    IN  Min(T, log \div 4)

getMaturityConfigRegressing(n) ==
    LET stage == getStage(n)
        detailLevel == getDetailLevel(n)
    IN  [stage |-> stage, sessionsCount |-> n,
         maxEyes |-> IF stage = "nascent" THEN 1 ELSE IF stage = "elder" THEN 2 ELSE 3,
         hasNucleus |-> stage # "nascent",
         hasCirculation |-> stage = "mature",
         appendageComplexity |->
             CASE stage = "nascent" -> 0 [] stage = "developing" -> 1
               [] stage = "mature" -> 3 [] stage = "elder" -> 2,
         detailLevel |-> detailLevel]
getMaturityConfig(n) ==
    LET stage == getStage(n)
        detailLevel == getDetailLevel(n)
    IN  CASE stage = "nascent" ->
               [stage |-> stage, sessionsCount |-> n, maxEyes |-> 1,
                hasNucleus |-> FALSE, hasCirculation |-> FALSE,
                appendageComplexity |-> 0, detailLevel |-> detailLevel]
          [] stage = "developing" ->
               [stage |-> stage, sessionsCount |-> n, maxEyes |-> 2,
                hasNucleus |-> TRUE, hasCirculation |-> FALSE,
                appendageComplexity |-> 1, detailLevel |-> detailLevel]
          [] stage = "mature" ->
               [stage |-> stage, sessionsCount |-> n, maxEyes |-> 3,
                hasNucleus |-> TRUE, hasCirculation |-> TRUE,
                appendageComplexity |-> 2, detailLevel |-> detailLevel]
          [] stage = "elder" ->
               [stage |-> stage, sessionsCount |-> n, maxEyes |-> 3,
                hasNucleus |-> TRUE, hasCirculation |-> TRUE,
                appendageComplexity |-> 3, detailLevel |-> detailLevel]

---------------------------------------------------------------------------
(* Body generator (creature/bodyGenerator.ts)                              *)

getBodyPlanInclusive(traits) ==
    IF traits.geometricOrganic <= 3000 THEN "radial"
    ELSE IF traits.geometricOrganic >= 7000 THEN "bilateral"
    ELSE IF traits.connectedIsolated >= 5000 THEN "asymmetric" ELSE "bilateral"
getBodyPlan(traits) ==
    IF traits.geometricOrganic < 3000 THEN "radial"
    ELSE IF traits.geometricOrganic > 7000 THEN "bilateral"
    ELSE IF traits.connectedIsolated > 5000 THEN "asymmetric" ELSE "bilateral"

getResolution(plan, mat) ==
    LET base == CASE plan = "radial" -> 6
                  [] plan = "bilateral" -> 24
                  [] plan = "asymmetric" -> 32
        scaled == Round(base * (T + (mat.detailLevel \div 2)))
    IN  Min(64, scaled)

generateMembrane(traits, mat) ==
    [thickness |-> lerp(1500, 500, traits.geometricOrganic),
     opacity |-> lerp(5000, 8500, traits.intensityScale),
     breathAmplitude |->
        (lerp(200, 800, traits.geometricOrganic)
            * (8000 + ((mat.detailLevel * 4000) \div T))) \div T,
     breathRate |-> lerp(1000, 2700, traits.motionTempo)]

\* [val |-> the nucleus or None (undefined), st |-> the PRNG state afterwards].
\* The position [cos(angle), sin(angle)] * offsetAmount is kept as the pair
\* of the angle (in turns) and the offset.
generateNucleusAlways(traits, mat, st, palette) ==
    [val |-> [position |-> <<DrawF(st, 1), (traits.geometricOrganic * 2000) \div T>>,
              size |-> lerp(1500, 2500, mat.detailLevel),
              pulseRate |-> lerp(3000, 8000, traits.intensityScale),
              color |-> <<Min(T, (palette.primary.r * 13) \div 10),
                          Min(T, (palette.primary.g * 13) \div 10),
                          Min(T, (palette.primary.b * 13) \div 10)>>],
     st |-> Advance(st, 1)]
generateNucleus(traits, mat, st, palette) ==
    IF ~mat.hasNucleus
    THEN [val |-> None, st |-> st]
    ELSE [val |-> [position |-> <<DrawF(st, 1), (traits.geometricOrganic * 2000) \div T>>,
                   size |-> lerp(1500, 2500, mat.detailLevel),
                   pulseRate |-> lerp(3000, 8000, traits.intensityScale),
                   color |-> <<Min(T, (palette.primary.r * 13) \div 10),
                               Min(T, (palette.primary.g * 13) \div 10),
                               Min(T, (palette.primary.b * 13) \div 10)>>],
          st |-> Advance(st, 1)]

\* aspect: every body plan makes two calls of random().
bodyAspect(plan, random) ==
    CASE plan = "radial" ->
           <<T + (((DrawF(random, 1) - 5000) * 1000) \div T),
             T + (((DrawF(random, 2) - 5000) * 1000) \div T)>>
      [] plan = "bilateral" ->
           IF AboveHalf(Draw(random, 1))
           THEN <<11500 + ((DrawF(random, 2) * 1500) \div T), 9000>>
           ELSE <<9000, 11500 + ((DrawF(random, 2) * 1500) \div T)>>
      [] plan = "asymmetric" ->
           <<8500 + ((DrawF(random, 1) * 4000) \div T),
             8500 + ((DrawF(random, 2) * 4000) \div T)>>

bodyConfig(plan, traits, mat, aspect, nucleus) ==
    [val |-> [plan |-> plan,
              radius |-> lerp(1500, 2800, traits.intensityScale),
              aspect |-> aspect,
              irregularity |-> lerp(200, 2000, traits.geometricOrganic),
              resolution |-> getResolution(plan, mat),
              membrane |-> generateMembrane(traits, mat),
              nucleus |-> nucleus.val],
     st |-> nucleus.st]

generateBodyFrom(random, plan, traits, mat, palette) ==
    bodyConfig(plan, traits, mat, bodyAspect(plan, random),
               generateNucleus(traits, mat, Advance(random, 2), palette))

\* [val |-> the body, st |-> the state the body's PRNG closure is left in].
generateBody(traits, mat, seed, palette) ==
    generateBodyFrom(createSeededRandom(seed + 1000), getBodyPlan(traits),
                     traits, mat, palette)

---------------------------------------------------------------------------
(* Eye generator (creature/eyeGenerator.ts)                                *)

getEyeCountUncapped(traits, mat) ==
    IF traits.intensityScale < 3000 THEN 1
    ELSE IF traits.intensityScale < 6000 THEN 2
    ELSE 3
getEyeCount(traits, mat) ==
    IF traits.intensityScale < 3000 THEN 1
    ELSE IF traits.intensityScale < 6000 THEN Min(mat.maxEyes, 2)
    ELSE mat.maxEyes

getEyeSize(intensityScale) ==
    IF intensityScale < 3000
    THEN lerp(800, 1200, (intensityScale * T) \div 3000)
    ELSE IF intensityScale < 6000
    THEN lerp(1200, 1600, ((intensityScale - 3000) * T) \div 3000)
    ELSE lerp(1600, 2200, ((intensityScale - 6000) * T) \div 4000)

getPupilShape(geometricOrganic) ==
    IF geometricOrganic < 2500 THEN "star"
    ELSE IF geometricOrganic < 5000 THEN "vertical"
    ELSE "round"

getIrisPattern(geometricOrganic) ==
    IF geometricOrganic < 2500 THEN "rings"
    ELSE IF geometricOrganic < 5000 THEN "radial"
    ELSE IF geometricOrganic < 7500 THEN "spiral"
    ELSE "organic"

getGazeStyle(connectedIsolated) ==
    IF connectedIsolated < 2500 THEN "tracking"
    ELSE IF connectedIsolated < 5000 THEN "focused"
    ELSE IF connectedIsolated < 7500 THEN "contemplative"
    ELSE "wandering"

\* [val |-> the positions, st |-> the PRNG state afterwards].  A vertex of the
\* triangle layout, [cos, sin](i/3 * 2 pi - pi/2) * radius + [0, 0.05], is kept
\* as <<"triangle", i, radius>>.
thirdEyeLayout(spread, yOffset, top) ==
    << <<-spread, yOffset>>, <<spread, yOffset>>, <<0, top>> >>

pairLayout(spread, yOffset) == << <<-spread, yOffset>>, <<spread, yOffset>> >>

getEyePositions(count, st) ==
    CASE count = 1 ->
           [val |-> << <<((DrawF(st, 1) - 5000) * 500) \div T,
                         500 + ((DrawF(st, 2) * 500) \div T)>> >>,
            st |-> Advance(st, 2)]
      [] count = 2 ->
           [val |-> pairLayout(1500 + ((DrawF(st, 1) * 800) \div T),
                               500 + ((DrawF(st, 2) * 500) \div T)),
            st |-> Advance(st, 2)]
      [] count = 3 ->
           IF AboveHalf(Draw(st, 1))
           THEN [val |-> thirdEyeLayout(1400 + ((DrawF(st, 2) * 600) \div T),
                                        200 + ((DrawF(st, 3) * 400) \div T),
                                        1800 + ((DrawF(st, 4) * 400) \div T)),
                 st |-> Advance(st, 4)]
           ELSE [val |-> [i \in 1..3 |->
                            <<"triangle", i - 1, 1200 + ((DrawF(st, 2) * 400) \div T)>>],
                 st |-> Advance(st, 2)]
      [] OTHER -> [val |-> << >>, st |-> st]

Clamp01(x) == Max(0, Min(T, x))

\* [irisColor[c] * 1.5 capped at 1] when glowing, else undefined
glowColorOf(glowing, irisColor) ==
    IF glowing
    THEN <<Min(T, (irisColor[1] * 15) \div 10),
           Min(T, (irisColor[2] * 15) \div 10),
           Min(T, (irisColor[3] * 15) \div 10)>>
    ELSE None

eyeConfig(position, traits, mat, size, irisColor, basePupilSize, glowing) ==
    [position |-> position,
     size |-> size,
     iris |-> [color |-> irisColor,
               ringCount |-> Round(lerp(2 * T, 5 * T, mat.detailLevel)),
               fiberDensity |-> lerp(8 * T, 24 * T, mat.detailLevel),
               pattern |-> getIrisPattern(traits.geometricOrganic)],
     pupil |-> [shape |-> getPupilShape(traits.geometricOrganic),
                baseSize |-> basePupilSize,
                dilationRange |-> <<(basePupilSize * 7) \div 10,
                                    (basePupilSize * 13) \div 10>>,
                glowing |-> glowing,
                glowColor |-> glowColorOf(glowing, irisColor)],
     behavior |-> [blinkRate |-> lerp(3 * T, 20 * T, traits.motionTempo),
                   blinkDuration |-> 1500,
                   gazeSpeed |-> lerp(2000, 8000, traits.motionTempo),
                   gazeRange |-> lerp(3000, 6000, T - traits.connectedIsolated),
                   gazeStyle |-> getGazeStyle(traits.connectedIsolated)]]

\* The coin flip without the gate on the stage.
isGlowingAnyStage(mat, st) == AboveHalf(Draw(st, 5))

\* glowing = maturity.stage === 'elder' && random() > 0.5, the fifth draw of
\* the eye.
isGlowing(mat, st) == mat.stage = "elder" /\ AboveHalf(Draw(st, 5))

\* One eye: random() is called for the size, three times for the iris colour
\* and, only for an elder (&& short-circuits), once more for the glow.
generateSingleEye(position, index, traits, mat, st, irisBaseColor) ==
    [val |-> eyeConfig(
                position, traits, mat,
                (getEyeSize(traits.intensityScale)
                    * (9000 + ((DrawF(st, 1) * 2000) \div T))) \div T,
                <<Clamp01(irisBaseColor[1] + (((DrawF(st, 2) - 5000) * 1000) \div T)),
                  Clamp01(irisBaseColor[2] + (((DrawF(st, 3) - 5000) * 1000) \div T)),
                  Clamp01(irisBaseColor[3] + (((DrawF(st, 4) - 5000) * 1000) \div T))>>,
                lerp(2000, 3500, traits.intensityScale),
                isGlowing(mat, st)),
     st |-> IF mat.stage = "elder" THEN Advance(st, 5) ELSE Advance(st, 4)]

\* The loop of generateEyes from index i (0-based) on: eyes i .. eyeCount-1.
RECURSIVE EyeLoop(_, _, _, _, _, _, _)
RECURSIVE EyeLoopAfter(_, _, _, _, _, _, _)
EyeLoop(i, eyeCount, positions, traits, mat, st, irisBaseColor) ==
    IF i >= eyeCount
    THEN [val |-> << >>, st |-> st]
    ELSE EyeLoopAfter(
            generateSingleEye(IF i + 1 <= Len(positions) THEN positions[i + 1] ELSE None,
                              i, traits, mat, st, irisBaseColor),
            i, eyeCount, positions, traits, mat, irisBaseColor)

\* eyes.push(eye), then the rest of the loop with the closure as eye i left it.
EyeLoopAfter(eye, i, eyeCount, positions, traits, mat, irisBaseColor) ==
    Push(eye.val, EyeLoop(i + 1, eyeCount, positions, traits, mat, eye.st, irisBaseColor))

generateEyesFrom(eyeCount, positions, traits, mat, palette) ==
    EyeLoop(0, eyeCount, positions.val, traits, mat, positions.st,
            <<palette.secondary.r, palette.secondary.g, palette.secondary.b>>)

\* [val |-> the eyes, st |-> the state the eyes' PRNG closure is left in].
generateEyes(traits, mat, seed, palette) ==
    generateEyesFrom(getEyeCount(traits, mat),
                     getEyePositions(getEyeCount(traits, mat),
                                     createSeededRandom(seed + 2000)),
                     traits, mat, palette)

---------------------------------------------------------------------------
(* Appendage generator (creature/appendageGenerator.ts)                    *)

\* A decision tree whose middle band grows a limb and a tail together.
getAppendageTypesMixed(traits) ==
    IF traits.geometricOrganic < 3000 THEN <<"spoke">>
    ELSE IF traits.geometricOrganic < 6000
    THEN (IF traits.connectedIsolated > 5000 THEN <<"limb", "tail">> ELSE <<"limb">>)
    ELSE (IF traits.connectedIsolated > 5000 THEN <<"tendril", "tail">> ELSE <<"tendril">>)

getAppendageTypes(traits) ==
    IF traits.geometricOrganic < 3000 THEN <<"spoke">>
    ELSE IF traits.geometricOrganic < 6000
    THEN (IF traits.connectedIsolated > 5000 THEN <<"tail">> ELSE <<"limb">>)
    ELSE (IF traits.connectedIsolated > 5000 THEN <<"tendril", "tail">> ELSE <<"tendril">>)

getAppendageCount(type, traits, mat) ==
    IF mat.appendageComplexity = 0 THEN 0
    ELSE LET complexity == mat.appendageComplexity
         IN  CASE type = "spoke" -> 4 + (complexity * 2)
               [] type = "tendril" -> 2 + complexity
               [] type = "limb" -> 2 + (complexity \div 2)
               [] type = "tail" -> 1
               [] type = "cilia" -> 8 + (complexity * 4)
               [] type = "antenna" -> Min(2, complexity)

\* <<lengthRange, thicknessRange, segmentsRange, taperRange>>
getTypeParameters(type) ==
    CASE type = "spoke" ->
           [lengthRange |-> <<3000, 5000>>, thicknessRange |-> <<200, 400>>,
            segmentsRange |-> <<2, 4>>, taperRange |-> <<3000, 5000>>]
      [] type = "tendril" ->
           [lengthRange |-> <<5000, 9000>>, thicknessRange |-> <<150, 300>>,
            segmentsRange |-> <<6, 12>>, taperRange |-> <<7000, 9000>>]
      [] type = "limb" ->
           [lengthRange |-> <<3000, 5000>>, thicknessRange |-> <<250, 400>>,
            segmentsRange |-> <<3, 5>>, taperRange |-> <<3000, 5000>>]
      [] type = "tail" ->
           [lengthRange |-> <<6000, 10000>>, thicknessRange |-> <<300, 500>>,
            segmentsRange |-> <<8, 14>>, taperRange |-> <<8000, 9500>>]
      [] type = "cilia" ->
           [lengthRange |-> <<1000, 2000>>, thicknessRange |-> <<50, 100>>,
            segmentsRange |-> <<2, 3>>, taperRange |-> <<5000, 7000>>]
      [] type = "antenna" ->
           [lengthRange |-> <<4000, 6000>>, thicknessRange |-> <<100, 200>>,
            segmentsRange |-> <<4, 6>>, taperRange |-> <<6000, 8000>>]

\* Math.PI in fixed point.
PiFixed == 31416

baseAmplitude(type) ==
    CASE type = "spoke" -> 500 [] type = "tendril" -> 2000
      [] type = "limb" -> 1000 [] type = "tail" -> 2500
      [] type = "cilia" -> 1500 [] type = "antenna" -> 1000

baseFrequency(type) ==
    CASE type = "spoke" -> 5000 [] type = "tendril" -> 10000
      [] type = "limb" -> 8000 [] type = "tail" -> 6000
      [] type = "cilia" -> 20000 [] type = "antenna" -> 12000

generateWaveParams(type, traits, st) ==
    [val |-> [amplitude |->
                  (baseAmplitude(type) * lerp(5000, 15000, traits.geometricOrganic)) \div T,
              frequency |->
                  (baseFrequency(type) * lerp(7000, 15000, traits.motionTempo)) \div T,
              speed |-> lerp(3000, 12000, traits.motionTempo),
              phase |-> (DrawF(st, 1) * 2 * PiFixed) \div T],
     st |-> Advance(st, 1)]

\* The angle of appendage i (0-based) of `count`, r the fixed-point value drawn for it.
attachmentAngle(type, i, count, r) ==
    CASE type \in {"spoke", "cilia"} ->
           ((i * 2 * PiFixed) \div count) + (((r - 5000) * 2000) \div T)
      [] type \in {"tendril", "limb"} ->
           (PiFixed \div 2)
               + ((IF i % 2 = 0 THEN -1 ELSE 1) * (3000 + ((i \div 2) * 4000)))
               + (((r - 5000) * 2000) \div T)
      [] type = "antenna" ->
           (PiFixed \div 2)
               + ((IF i % 2 = 0 THEN -1 ELSE 1) * (3000 + ((r * 2000) \div T)))

\* The loops of getAttachmentAngles from index i (0-based) on: one call of
\* random() for each angle.
RECURSIVE AngleLoop(_, _, _, _)
AngleLoop(type, i, count, st) ==
    IF i >= count
    THEN [val |-> << >>, st |-> st]
    ELSE Push(attachmentAngle(type, i, count, DrawF(st, 1)),
              AngleLoop(type, i + 1, count, Advance(st, 1)))

getAttachmentAngles(type, count, st) ==
    IF type = "tail"
    THEN [val |-> <<((PiFixed * 3) \div 2) + (((DrawF(st, 1) - 5000) * 3000) \div T)>>,
          st |-> Advance(st, 1)]
    ELSE AngleLoop(type, 0, count, st)

appendageConfig(type, attachAngle, params, detailScale, st, wave) ==
    [val |-> [type |-> type,
              attachAngle |-> attachAngle,
              length |-> (lerp(params.lengthRange[1], params.lengthRange[2], DrawF(st, 1))
                            * detailScale) \div T,
              thickness |-> lerp(params.thicknessRange[1], params.thicknessRange[2],
                                 DrawF(st, 2)),
              segments |-> Round(lerp(params.segmentsRange[1] * T,
                                      params.segmentsRange[2] * T, DrawF(st, 3))),
              taper |-> lerp(params.taperRange[1], params.taperRange[2], DrawF(st, 4)),
              wave |-> wave.val],
     st |-> wave.st]

\* random() is called for length, thickness, segments and taper, then once by
\* generateWaveParams.
generateSingleAppendage(type, attachAngle, traits, mat, st) ==
    appendageConfig(type, attachAngle, getTypeParameters(type),
                    7000 + ((mat.detailLevel * 6000) \div T), st,
                    generateWaveParams(type, traits, Advance(st, 4)))

\* The inner loop of generateAppendages from index i (0-based) on.
RECURSIVE AppendageLoop(_, _, _, _, _, _, _)
RECURSIVE AppendageLoopAfter(_, _, _, _, _, _, _)
AppendageLoop(type, i, count, angles, traits, mat, st) ==
    IF i >= count
    THEN [val |-> << >>, st |-> st]
    ELSE AppendageLoopAfter(
            generateSingleAppendage(
                type, IF i + 1 <= Len(angles) THEN angles[i + 1] ELSE None,
                traits, mat, st),
            type, i, count, angles, traits, mat)

\* appendages.push(one), then the rest of the loop with the closure as it left it.
AppendageLoopAfter(one, type, i, count, angles, traits, mat) ==
    Push(one.val, AppendageLoop(type, i + 1, count, angles, traits, mat, one.st))

\* [val |-> a.val \o b.val, st |-> b.st]
Append2(a, b) == [val |-> a.val \o b.val, st |-> b.st]

\* The outer loop of generateAppendages over the types from position k on.
RECURSIVE TypeLoop(_, _, _, _, _)
RECURSIVE TypeLoopAngles(_, _, _, _, _, _)
RECURSIVE TypeLoopAfter(_, _, _, _, _)
TypeLoop(types, k, traits, mat, st) ==
    IF k > Len(types)
    THEN [val |-> << >>, st |-> st]
    ELSE TypeLoopAngles(
            getAttachmentAngles(types[k], getAppendageCount(types[k], traits, mat), st),
            getAppendageCount(types[k], traits, mat), types, k, traits, mat)

TypeLoopAngles(angles, count, types, k, traits, mat) ==
    TypeLoopAfter(AppendageLoop(types[k], 0, count, angles.val, traits, mat, angles.st),
                  types, k, traits, mat)

TypeLoopAfter(these, types, k, traits, mat) ==
    Append2(these, TypeLoop(types, k + 1, traits, mat, these.st))

\* [val |-> the appendages, st |-> the state of the PRNG closure created last:
\* st0 when none is created here].
generateAppendages(traits, mat, seed, st0) ==
    IF mat.appendageComplexity = 0
    THEN [val |-> << >>, st |-> st0]
    ELSE TypeLoop(getAppendageTypes(traits), 1, traits, mat, createSeededRandom(seed + 3000))

---------------------------------------------------------------------------
(* Behavior generator (creature/behaviorGenerator.ts)                      *)

generateBreathing(traits) ==
    [rate |-> lerp(6 * T, 20 * T, traits.motionTempo),
     depth |-> lerp(3000, 8000, traits.geometricOrganic),
     pattern |-> IF traits.geometricOrganic < 3300 THEN "regular"
                 ELSE IF traits.geometricOrganic < 6600 THEN "sighing"
                 ELSE "irregular"]

generateIdle(traits) ==
    [drift |-> lerp(500, 3000, traits.geometricOrganic),
     wobble |-> lerp(1000, 5000, traits.motionTempo),
     pulse |-> lerp(2000, 6000, traits.connectedIsolated)]

generateGaze(traits) ==
    [centerBias |-> lerp(7000, 2000, traits.connectedIsolated),
     syncFactor |-> lerp(9000, 4000, traits.connectedIsolated),
     curiosity |-> lerp(3000, 8000, traits.motionTempo)]

generateBehavior(traits) ==
    [breathing |-> generateBreathing(traits),
     idle |-> generateIdle(traits),
     gaze |-> generateGaze(traits)]

---------------------------------------------------------------------------
(* generateCreature (creature/generator.ts)                                *)

generateColors(palette) ==
    [body |-> <<palette.primary.r, palette.primary.g, palette.primary.b>>,
     membrane |-> <<((palette.primary.r * 8) + (palette.secondary.r * 2)) \div 10,
                    ((palette.primary.g * 8) + (palette.secondary.g * 2)) \div 10,
                    ((palette.primary.b * 8) + (palette.secondary.b * 2)) \div 10>>,
     accent |-> <<palette.accent.r, palette.accent.g, palette.accent.b>>,
     nucleus |-> <<Min(T, (palette.accent.r * 12) \div 10),
                   Min(T, (palette.accent.g * 12) \div 10),
                   Min(T, (palette.accent.b * 12) \div 10)>>]

creatureOf(params, mat, body, eyes, appendages) ==
    [val |-> [seed |-> params.seed,
              maturity |-> mat,
              body |-> body.val,
              eyes |-> eyes.val,
              appendages |-> appendages.val,
              behavior |-> generateBehavior(params.traitVector),
              colors |-> generateColors(params.palette)],
     st |-> appendages.st]

generateCreatureAt(params, mat, eyes) ==
    creatureOf(params, mat,
               generateBody(params.traitVector, mat, params.seed, params.palette),
               eyes,
               generateAppendages(params.traitVector, mat, params.seed, eyes.st))

generateCreatureWith(params, mat) ==
    generateCreatureAt(params, mat,
                       generateEyes(params.traitVector, mat, params.seed, params.palette))

\* [val |-> the Creature, st |-> the state of the PRNG closure created last].
generateCreature(params, sessions) ==
    generateCreatureWith(params, getMaturityConfig(sessions))

---------------------------------------------------------------------------
(* Body mesh (the CreatureBody component)                                  *)

\* A fan left open: triangle i ends at vertex i + 2, without the wrap to 1.
fanTriangleOpen(i, resolution) == <<0, i + 1, i + 2>>

\* indices[i * 3 .. i * 3 + 2] = 0, v1 = i + 1, v2 = ((i + 1) % resolution) + 1
fanTriangle(i, resolution) == <<0, i + 1, ((i + 1) % resolution) + 1>>

\* The Uint16Array of the triangle indices, element k (1-based) belonging to
\* triangle (k - 1) \div 3.
fanIndices(resolution) ==
    [k \in 1..(resolution * 3) |->
        fanTriangle((k - 1) \div 3, resolution)[((k - 1) % 3) + 1] % W16]

\* edgeFactors[0] = 0 for the centre, edgeFactors[idx] = 1 on the perimeter.
edgeFactorsOf(vertexCount) == [v \in 1..vertexCount |-> IF v = 1 THEN 0 ELSE T]

\* angles[0] = 0, angles[i + 1] = (i / resolution) * Math.PI * 2
anglesOf(resolution) ==
    [v \in 1..(resolution + 1) |->
        IF v = 1 THEN 0 ELSE ((v - 2) * (2 * PiFixed)) \div resolution]

\* generateBodyBuffers(body, seed): the buffers that give the mesh its
\* structure.  The perimeter positions and the noise offsets, which hold a
\* trigonometric outline and PRNG values per vertex, are not kept.
generateBodyBuffers(body) ==
    [vertexCount |-> body.resolution + 1,
     triangleCount |-> body.resolution,
     edgeFactors |-> edgeFactorsOf(body.resolution + 1),
     angles |-> anglesOf(body.resolution),
     indices |-> fanIndices(body.resolution)]

---------------------------------------------------------------------------
(* The inputs of the creature pipeline.                                    *)

\* Trait values on and next to every threshold of the generators.
GeometricOrganicValues == {0, 2900, 3000, 5000, 5900, 6000, 7000, 7100}
ConnectedIsolatedValues == {5000, 5100}
IntensityScaleValues == {0, 2900, 3000, 5900, 6000, T}
MotionTempoValues == {5000}

TraitVectors ==
    [geometricOrganic : GeometricOrganicValues,
     connectedIsolated : ConnectedIsolatedValues,
     intensityScale : IntensityScaleValues,
     motionTempo : MotionTempoValues]

\* The palette of getDefaultCreature.
DefaultPalette ==
    [primary |-> [r |-> 0, g |-> 9000, b |-> 8000],
     secondary |-> [r |-> 10000, g |-> 3000, b |-> 3000],
     accent |-> [r |-> 6600, g |-> 3300, b |-> 9700]]

\* 42 (getDefaultCreature) and hashString("claude-7f3a2b").
Seeds == {42, 577813020}

\* Session counts on both sides of every stage threshold, in increasing order.
SessionCounts == <<0, 10, 11, 101, 501>>

VisualParams == [seed : Seeds, traitVector : TraitVectors, palette : {DefaultPalette}]

NoArgs == [params |-> None, sessions |-> 0]

---------------------------------------------------------------------------
(* The seeded generator of the particle engine (hooks/useParticlePhysics.ts): *)
(* s = (s * 1103515245 + 12345) & 0x7fffffff in double arithmetic. The      *)
(* product and the sum are each rounded to the 53 significant bits of a     *)
(* double (ties to even) before the mask takes the low 31 bits.             *)

\* 1103515245 as a word.
LcgMultiplier == <<16838, 20077>>

\* 12345
LcgIncrement == 12345

\* The number of bits of n < 2^16.
RECURSIVE BitLen(_)
BitLen(n) == IF n = 0 THEN 0 ELSE 1 + BitLen(n \div 2)

\* Carries of the column sums <<c3, c2, c1, c0>> propagated: four 16-bit limbs,
\* most significant first.
Carry(c) ==
    <<c[1] + ((c[2] + ((c[3] + (c[4] \div W16)) \div W16)) \div W16),
      (c[2] + ((c[3] + (c[4] \div W16)) \div W16)) % W16,
      (c[3] + (c[4] \div W16)) % W16,
      c[4] % W16>>

\* The exact 64-bit product of two words from its four partial products.
ProductOf(ll, lh, hl, hh) ==
    Carry(<<hh[1], lh[1] + hl[1] + hh[2], ll[1] + lh[2] + hl[2], ll[2]>>)

MulLimbs(a, b) ==
    ProductOf(Mul16(a[2], b[2]), Mul16(a[2], b[1]), Mul16(a[1], b[2]), Mul16(a[1], b[1]))

\* x rounded to a multiple of 2^e (0 < e < 16), ties to the even multiple.
RoundAt(x, e) ==
    IF \/ (x[4] % Pow2(e)) > Pow2(e - 1)
       \/ ((x[4] % Pow2(e)) = Pow2(e - 1) /\ ((x[4] \div Pow2(e)) % 2) = 1)
    THEN Carry(<<x[1], x[2], x[3], (x[4] - (x[4] % Pow2(e))) + Pow2(e)>>)
    ELSE <<x[1], x[2], x[3], x[4] - (x[4] % Pow2(e))>>

\* x (below 2^64) as the nearest double: 53 significant bits are kept.
ToDouble(x) == IF BitLen(x[1]) > 5 THEN RoundAt(x, BitLen(x[1]) - 5) ELSE x

AddIncrement(x) == Carry(<<x[1], x[2], x[3], x[4] + LcgIncrement>>)

\* x & 0x7fffffff
Low31(x) == ((x[3] % 32768) * W16) + x[4]

\* The step in exact integer arithmetic, the product not rounded to a double.
seededRandomNextExact(s) ==
    Low31(AddIncrement(MulLimbs(ToWord(s), LcgMultiplier)))

\* One call of the closure of seededRandom in state s: the new s.
seededRandomNext(s) ==
    Low31(ToDouble(AddIncrement(ToDouble(MulLimbs(ToWord(s), LcgMultiplier)))))

\* The states of the closure after each of its first n calls: acc holds the
\* first Len(acc) of them, s is the last of these (the seed when acc is empty).
RECURSIVE seededRandomStates(_, _, _)
RECURSIVE seededRandomStatesAfter(_, _, _)
seededRandomStates(s, n, acc) ==
    IF Len(acc) >= n \/ s < 0
    THEN acc
    ELSE seededRandomStatesAfter(seededRandomNext(s), n, acc)

seededRandomStatesAfter(s, n, acc) == seededRandomStates(s, n, Append(acc, s))

\* s / 0x7fffffff in fixed point: floor(T * s / (2^31 - 1)), the quotient by
\* 2^31 corrected.
LcgQuotient(s) == (((s \div W16) * T) + (((s % W16) * T) \div W16)) \div 32768

LcgRemainder(s) ==
    ((((((s \div W16) * T) % 32768) + (((s % W16) * T) \div W16)) % 32768) * W16)
        + (((s % W16) * T) % W16)

LcgFixed(s) ==
    IF LcgRemainder(s) >= (2147483647 - LcgQuotient(s))
    THEN LcgQuotient(s) + 1
    ELSE LcgQuotient(s)

\* Math.floor(random() * 4) for the state s the call left: 4 when s is 0x7fffffff.
LcgEdge(s) == IF s = 2147483647 THEN 4 ELSE s \div 536870912

\* The states of the closure after each of its first chunks * size calls,
\* computed size calls at a time.
RECURSIVE seededRandomChunks(_, _, _, _)
RECURSIVE seededRandomChunksAfter(_, _, _, _)
seededRandomChunks(s, chunks, size, acc) ==
    IF chunks = 0
    THEN acc
    ELSE seededRandomChunksAfter(seededRandomStates(s, size, << >>), chunks, size, acc)

seededRandomChunksAfter(chunk, chunks, size, acc) ==
    seededRandomChunks(chunk[Len(chunk)], chunks - 1, size, acc \o chunk)

---------------------------------------------------------------------------
(* Particle engine: allocation (hooks/useParticlePhysics.ts). Typed arrays  *)
(* are sequences, element i of the array at position i + 1.                *)

RESPAWN_POOL_SIZE == 16

\* margin = 0.1
Margin == 1000

\* The z of every vertex: 0.1
VertexZ == 1000

\* The calls of random() that initialise one particle: startX, startY,
\* baseSize, baseAge, colorR, colorG, colorB.
DrawsPerParticle == 7

trailSegmentsOf(params) == ((params.trailLength * 18) \div T) + 2

totalVerticesOf(params) == params.particleCount * trailSegmentsOf(params)

\* (random() - 0.5) * 2 for the state s the call left.
Centered(s) == (LcgFixed(s) - 5000) * 2

\* The respawn position on the edge chosen by sEdge, at the coordinate drawn next.
respawnPosition(sEdge, sCoord) ==
    CASE LcgEdge(sEdge) = 0 -> <<Centered(sCoord), 0 - (T + (Margin \div 2))>>
      [] LcgEdge(sEdge) = 1 -> <<Centered(sCoord), T + (Margin \div 2)>>
      [] LcgEdge(sEdge) = 2 -> <<0 - (T + (Margin \div 2)), Centered(sCoord)>>
      [] OTHER -> <<T + (Margin \div 2), Centered(sCoord)>>

\* respawnData, draws the states of the closure after each call.
respawnDataOf(params, poolSize, draws) ==
    [j \in 1..(params.particleCount * poolSize * 2) |->
        respawnPosition(draws[(2 * ((j - 1) \div 2)) + 1],
                        draws[(2 * ((j - 1) \div 2)) + 2])[((j - 1) % 2) + 1]]

\* The state the k-th call (k in 1..DrawsPerParticle) for particle p left.
particleDraw(params, poolSize, draws, p, k) ==
    draws[(params.particleCount * poolSize * 2) + (p * DrawsPerParticle) + k]

\* trailFactor = t / (trailSegments - 1)
trailFactorOf(t, trailSegments) == (t * T) \div (trailSegments - 1)

\* positions and trailPositions: (startX, startY, 0.1) for every trail segment.
positionsOf(params, poolSize, draws) ==
    [i \in 1..(totalVerticesOf(params) * 3) |->
        IF (i - 1) % 3 = 2
        THEN VertexZ
        ELSE Centered(particleDraw(params, poolSize, draws,
                                   ((i - 1) \div 3) \div trailSegmentsOf(params),
                                   ((i - 1) % 3) + 1))]

\* sizes: baseSize * (1 - trailFactor * 0.5), baseSize = 0.5 + random() * 0.5
sizesOf(params, poolSize, draws) ==
    [i \in 1..totalVerticesOf(params) |->
        ((5000 + (LcgFixed(particleDraw(params, poolSize, draws,
                                        (i - 1) \div trailSegmentsOf(params), 3)) \div 2))
            * (T - (trailFactorOf((i - 1) % trailSegmentsOf(params),
                                  trailSegmentsOf(params)) \div 2))) \div T]

\* ages: baseAge = random()
agesOf(params, poolSize, draws) ==
    [i \in 1..totalVerticesOf(params) |->
        LcgFixed(particleDraw(params, poolSize, draws,
                              (i - 1) \div trailSegmentsOf(params), 4))]

\* colors: 0.8 + random() * 0.2 for each of r, g, b
colorsOf(params, poolSize, draws) ==
    [i \in 1..(totalVerticesOf(params) * 3) |->
        8000 + ((LcgFixed(particleDraw(params, poolSize, draws,
                                       ((i - 1) \div 3) \div trailSegmentsOf(params),
                                       5 + ((i - 1) % 3))) * 2000) \div T)]

trailIndicesOf(params) ==
    [i \in 1..totalVerticesOf(params) |->
        trailFactorOf((i - 1) % trailSegmentsOf(params), trailSegmentsOf(params))]

buffersFrom(params, poolSize, draws) ==
    [positions |-> positionsOf(params, poolSize, draws),
     trailPositions |-> positionsOf(params, poolSize, draws),
     sizes |-> sizesOf(params, poolSize, draws),
     ages |-> agesOf(params, poolSize, draws),
     colors |-> colorsOf(params, poolSize, draws),
     trailIndices |-> trailIndicesOf(params),
     respawnData |-> respawnDataOf(params, poolSize, draws)]

\* The buffers useMemo: one closure of seededRandom(seed), called for the
\* respawn pool of every particle and then for every particle.
allocateBuffers(params, poolSize) ==
    buffersFrom(params, poolSize,
                seededRandomChunks(params.seed, params.particleCount,
                                   (poolSize * 2) + DrawsPerParticle, << >>))

\* The legacy variant of the hook allocates no respawn pool.
allocateBuffersLegacy(params) == allocateBuffers(params, 0)

\* headPositions as the refs useMemo initialises it: the head vertex of every
\* particle.
headPositionsOf(params, positions) ==
    [i \in 1..(params.particleCount * 3) |->
        positions[((((i - 1) \div 3) * trailSegmentsOf(params)) * 3) + ((i - 1) % 3) + 1]]

\* new Uint8Array(particleCount)
newRespawnCounters(params) == [i \in 1..params.particleCount |-> 0]

---------------------------------------------------------------------------
(* Particle engine: update(time, delta). st holds what the loop over the   *)
(* particles reads and writes: positions, ages, headPositions,             *)
(* respawnCounters, the locals x and y of the iteration, the particles     *)
(* respawned so far in the call and the closures of seededRandom created.  *)

\* Array.prototype.copyWithin(target, start, end), indices as in the code.
\* A block copy that takes the element at `end` along.
CopyWithinInclusive(arr, target, start, end) ==
    [i \in 1..Len(arr) |->
        IF (i - 1) >= target /\ (i - 1) <= target + (end - start)
        THEN arr[((i - 1) - target) + start + 1]
        ELSE arr[i]]

CopyWithin(arr, target, start, end) ==
    [i \in 1..Len(arr) |->
        IF (i - 1) >= target /\ (i - 1) < target + (end - start)
        THEN arr[((i - 1) - target) + start + 1]
        ELSE arr[i]]

\* dt = Math.min(delta, 0.05)
MaxDelta == 500

\* delta as it is, however long the frame took.
uncappedDelta(delta) == delta

cappedDelta(delta) == Min(delta, MaxDelta)

\* speed = animSpeed * 0.5
speedOf(params) == params.animSpeed \div 2

\* v * dt * speed
Displacement(v, dt, speed) == (((v * dt) \div T) * speed) \div T

\* x += vx * dt * speed; y += vy * dt * speed, from the head position of p.
integrate(st, p, flow, dt, speed) ==
    [st EXCEPT !.x = st.headPositions[(p * 3) + 1] + Displacement(flow[1], dt, speed),
               !.y = st.headPositions[(p * 3) + 2] + Displacement(flow[2], dt, speed)]

\* x < -1 - margin || x > 1 + margin || y < -1 - margin || y > 1 + margin
OutOfBox(x, y) ==
    \/ x < 0 - (T + Margin)
    \/ x > T + Margin
    \/ y < 0 - (T + Margin)
    \/ y > T + Margin

\* positions with every trail segment of the particle at headIdx set to (x, y).
resetTrail(positions, headIdx, trailSegments, x, y) ==
    [i \in 1..Len(positions) |->
        IF ((i - 1) \div 3) >= headIdx /\ ((i - 1) \div 3) < headIdx + trailSegments
        THEN (CASE (i - 1) % 3 = 0 -> x
                [] (i - 1) % 3 = 1 -> y
                [] OTHER -> positions[i])
        ELSE positions[i]]

resetAgeSkipped(ages, headIdx) == ages
\* buffers.ages[headIdx] = 0
resetAge(ages, headIdx) == [ages EXCEPT ![headIdx + 1] = 0]

respawnDataIndexShared(p, respawnIdx) == respawnIdx * 2
\* dataIdx = (p * RESPAWN_POOL_SIZE + respawnIdx) * 2
respawnDataIndex(p, respawnIdx) == ((p * RESPAWN_POOL_SIZE) + respawnIdx) * 2

\* The respawn of particle p at the pool entry dataIdx.
respawnAt(st, p, headIdx, trailSegments, respawnData, dataIdx) ==
    [st EXCEPT !.x = respawnData[dataIdx + 1],
               !.y = respawnData[dataIdx + 2],
               !.respawnCounters[p + 1] =
                   ((st.respawnCounters[p + 1] + 1) % RESPAWN_POOL_SIZE) % 256,
               !.positions = resetTrail(st.positions, headIdx, trailSegments,
                                        respawnData[dataIdx + 1],
                                        respawnData[dataIdx + 2]),
               !.ages = resetAge(st.ages, headIdx),
               !.respawned = st.respawned \cup {p}]

\* The boundary handling of the pooled update.
respawn(st, p, trailSegments, respawnData) ==
    IF OutOfBox(st.x, st.y)
    THEN respawnAt(st, p, p * trailSegments, trailSegments, respawnData,
                   respawnDataIndex(p, st.respawnCounters[p + 1]))
    ELSE st

\* positions after the shift of the trail and the write of the new head.
shiftedPositions(positions, headIdx, trailSegments, x, y) ==
    [CopyWithin(positions, (headIdx * 3) + 3, headIdx * 3,
                (headIdx * 3) + ((trailSegments - 1) * 3))
        EXCEPT ![(headIdx * 3) + 1] = x,
               ![(headIdx * 3) + 2] = y,
               ![(headIdx * 3) + 3] = VertexZ]

\* age + dt * 0.5 without the cap at 1.0.
olderByUncapped(age, dt) == age + (dt \div 2)

\* Math.min(age + dt * 0.5, 1.0)
olderBy(age, dt) == Min(age + (dt \div 2), T)

\* ages after the shift along the trail and the update of the head age.
shiftedAges(ages, headIdx, trailSegments, dt) ==
    [CopyWithin(ages, headIdx + 1, headIdx, headIdx + (trailSegments - 1))
        EXCEPT ![headIdx + 1] = olderBy(ages[headIdx + 1], dt)]

\* The rest of the iteration: the head position is stored and the trail shifted.
store(st, p, headIdx, trailSegments, dt) ==
    [st EXCEPT !.headPositions[(p * 3) + 1] = st.x,
               !.headPositions[(p * 3) + 2] = st.y,
               !.positions = shiftedPositions(st.positions, headIdx, trailSegments,
                                              st.x, st.y),
               !.ages = shiftedAges(st.ages, headIdx, trailSegments, dt)]

\* One iteration of the loop of the pooled update.
updateParticle(st, p, params, respawnData, flow, dt) ==
    store(respawn(integrate(st, p, flow, dt, speedOf(params)),
                  p, trailSegmentsOf(params), respawnData),
          p, p * trailSegmentsOf(params), trailSegmentsOf(params), dt)

\* for (let p = 0; p < particleCount; p++), flows[p + 1] the flow velocity
\* sampled for particle p.
RECURSIVE updateLoop(_, _, _, _, _, _)
updateLoop(st, p, params, respawnData, flows, dt) ==
    IF p >= params.particleCount
    THEN st
    ELSE updateLoop(updateParticle(st, p, params, respawnData, flows[p + 1], dt),
                    p + 1, params, respawnData, flows, dt)

---------------------------------------------------------------------------
(* Particle engine: update(time, delta) of the legacy variant of the hook, *)
(* which keeps no respawn pool.                                            *)

\* Math.floor(time * 1000)
Milliseconds(now) == (now * 1000) \div T

\* The respawn position from the two calls of a new closure that left the
\* states draws[1] and draws[2]; the switch has no case for edge 4, which
\* leaves (x, y) as integrated.
legacyRespawnPosition(x, y, draws) ==
    CASE LcgEdge(draws[1]) = 0 -> <<Centered(draws[2]), 0 - (T + (Margin \div 2))>>
      [] LcgEdge(draws[1]) = 1 -> <<Centered(draws[2]), T + (Margin \div 2)>>
      [] LcgEdge(draws[1]) = 2 -> <<0 - (T + (Margin \div 2)), Centered(draws[2])>>
      [] LcgEdge(draws[1]) = 3 -> <<T + (Margin \div 2), Centered(draws[2])>>
      [] OTHER -> <<x, y>>

legacyRespawnAt(st, p, headIdx, trailSegments, xy) ==
    [st EXCEPT !.x = xy[1],
               !.y = xy[2],
               !.positions = resetTrail(st.positions, headIdx, trailSegments,
                                        xy[1], xy[2]),
               !.ages = resetAge(st.ages, headIdx),
               !.respawned = st.respawned \cup {p},
               !.randomSources = st.randomSources + 1]

\* The boundary handling of the legacy update:
\* seededRandom(seed + p + Math.floor(time * 1000)) at every respawn.
legacyRespawn(st, p, trailSegments, seed, now) ==
    IF OutOfBox(st.x, st.y)
    THEN legacyRespawnAt(st, p, p * trailSegments, trailSegments,
                         legacyRespawnPosition(
                             st.x, st.y,
                             seededRandomStates(seed + p + Milliseconds(now), 2, << >>)))
    ELSE st

\* The age of every trail segment of the particle at headIdx grows.
legacyAges(ages, headIdx, trailSegments, dt) ==
    [i \in 1..Len(ages) |->
        IF (i - 1) >= headIdx /\ (i - 1) < headIdx + trailSegments
        THEN olderBy(ages[i], dt)
        ELSE ages[i]]

legacyStore(st, p, headIdx, trailSegments, dt) ==
    [st EXCEPT !.headPositions[(p * 3) + 1] = st.x,
               !.headPositions[(p * 3) + 2] = st.y,
               !.positions = shiftedPositions(st.positions, headIdx, trailSegments,
                                              st.x, st.y),
               !.ages = legacyAges(st.ages, headIdx, trailSegments, dt)]

\* One iteration of the loop of the legacy update.
legacyUpdateParticle(st, p, params, now, flow, dt) ==
    legacyStore(legacyRespawn(integrate(st, p, flow, dt, speedOf(params)),
                              p, trailSegmentsOf(params), params.seed, now),
                p, p * trailSegmentsOf(params), trailSegmentsOf(params), dt)

RECURSIVE legacyUpdateLoop(_, _, _, _, _, _)
legacyUpdateLoop(st, p, params, now, flows, dt) ==
    IF p >= params.particleCount
    THEN st
    ELSE legacyUpdateLoop(legacyUpdateParticle(st, p, params, now, flows[p + 1], dt),
                          p + 1, params, now, flows, dt)

---------------------------------------------------------------------------
(* Hashing (generation/hash.ts). Strings are sequences of UTF-16 code      *)
(* units; a hash is a 32-bit word.                                         *)

\* -w as a 32-bit word.
NegW(w) ==
    IF w[2] = 0
    THEN <<(W16 - w[1]) % W16, 0>>
    ELSE <<(W16 - 1) - w[1], W16 - w[2]>>

\* hash = (hash << 5) - hash + char; hash = hash & hash
hashStep(hash, char) == AddW(ImulW(hash, <<0, 31>>), <<0, char>>)

RECURSIVE hashLoop(_, _, _)
hashLoop(str, i, hash) ==
    IF i > Len(str) \/ hash[1] < 0
    THEN hash
    ELSE hashLoop(str, i + 1, hashStep(hash, str[i]))

\* The signed hash as it is, its sign bit kept.
AbsWSkipped(hash) == hash

\* Math.abs of the signed 32-bit hash: a word again, 2^31 for -2^31.
AbsW(hash) == IF hash[1] >= 32768 THEN NegW(hash) ELSE hash

hashString(str) == AbsW(hashLoop(str, 1, <<0, 0>>))

\* <<floor(w / 10), w % 10>> for a word w.
DivMod10(w) ==
    <<<<w[1] \div 10, (((w[1] % 10) * W16) + w[2]) \div 10>>,
      (((w[1] % 10) * W16) + w[2]) % 10>>

\* String(n) for the non-negative integer held by the word w.
RECURSIVE DecimalString(_)
DecimalString(w) ==
    IF w[1] = 0 /\ w[2] < 10
    THEN <<48 + w[2]>>
    ELSE Append(DecimalString(DivMod10(w)[1]), 48 + DivMod10(w)[2])

\* w % 10000
Mod10000(w) == (((w[1] % 10000) * (W16 % 10000)) + w[2]) % 10000

\* hashToFloat(hash, offset) in fixed point: (combined % 10000) / 10000 of
\* combined = hashString(`${hash}-${offset}`).
hashToFloat(hash, offset) ==
    Mod10000(hashString(DecimalString(hash) \o <<45>> \o DecimalString(<<0, offset>>)))

---------------------------------------------------------------------------
(* Trait vocabulary (generation/traitVocabulary.ts)                        *)

Vector(go, ci, is, mt) ==
    [geometricOrganic |-> go, connectedIsolated |-> ci,
     intensityScale |-> is, motionTempo |-> mt]

\* TRAIT_EMBEDDINGS in the order of Object.entries: <<key, vector>>, the key
\* as its code units.
TRAIT_EMBEDDINGS ==
    <<      \* analytical
      <<<<97, 110, 97, 108, 121, 116, 105, 99, 97, 108>>,
        Vector(1000, 4000, 5000, 3500)>>,
      \* precise
      <<<<112, 114, 101, 99, 105, 115, 101>>,
        Vector(500, 5000, 6000, 4000)>>,
      \* methodical
      <<<<109, 101, 116, 104, 111, 100, 105, 99, 97, 108>>,
        Vector(1500, 5500, 4500, 2500)>>,
      \* logical
      <<<<108, 111, 103, 105, 99, 97, 108>>,
        Vector(1000, 4500, 5000, 3500)>>,
      \* systematic
      <<<<115, 121, 115, 116, 101, 109, 97, 116, 105, 99>>,
        Vector(800, 3500, 5500, 3000)>>,
      \* structured
      <<<<115, 116, 114, 117, 99, 116, 117, 114, 101, 100>>,
        Vector(500, 5000, 5000, 3000)>>,
      \* organized
      <<<<111, 114, 103, 97, 110, 105, 122, 101, 100>>,
        Vector(1200, 4000, 4500, 3500)>>,
      \* creative
      <<<<99, 114, 101, 97, 116, 105, 118, 101>>,
        Vector(8500, 4500, 7000, 6000)>>,
      \* intuitive
      <<<<105, 110, 116, 117, 105, 116, 105, 118, 101>>,
        Vector(9000, 5000, 5000, 5500)>>,
      \* playful
      <<<<112, 108, 97, 121, 102, 117, 108>>,
        Vector(8000, 3000, 7500, 8500)>>,
      \* adaptive
      <<<<97, 100, 97, 112, 116, 105, 118, 101>>,
        Vector(7000, 4000, 6000, 6500)>>,
      \* imaginative
      <<<<105, 109, 97, 103, 105, 110, 97, 116, 105, 118, 101>>,
        Vector(9200, 5500, 6500, 6000)>>,
      \* expressive
      <<<<101, 120, 112, 114, 101, 115, 115, 105, 118, 101>>,
        Vector(8800, 3500, 8000, 7000)>>,
      \* artistic
      <<<<97, 114, 116, 105, 115, 116, 105, 99>>,
        Vector(9500, 5000, 6500, 5500)>>,
      \* innovative
      <<<<105, 110, 110, 111, 118, 97, 116, 105, 118, 101>>,
        Vector(7500, 4500, 7000, 6500)>>,
      \* collaborative
      <<<<99, 111, 108, 108, 97, 98, 111, 114, 97, 116, 105, 118, 101>>,
        Vector(5000, 1000, 6000, 5000)>>,
      \* helpful
      <<<<104, 101, 108, 112, 102, 117, 108>>,
        Vector(5500, 1500, 5000, 5000)>>,
      \* communicative
      <<<<99, 111, 109, 109, 117, 110, 105, 99, 97, 116, 105, 118, 101>>,
        Vector(5000, 800, 6000, 6500)>>,
      \* empathetic
      <<<<101, 109, 112, 97, 116, 104, 101, 116, 105, 99>>,
        Vector(6500, 1200, 4500, 4000)>>,
      \* supportive
      <<<<115, 117, 112, 112, 111, 114, 116, 105, 118, 101>>,
        Vector(6000, 1000, 5000, 4500)>>,
      \* social
      <<<<115, 111, 99, 105, 97, 108>>,
        Vector(5500, 500, 6500, 6000)>>,
      \* focused
      <<<<102, 111, 99, 117, 115, 101, 100>>,
        Vector(3000, 8000, 7000, 3500)>>,
      \* independent
      <<<<105, 110, 100, 101, 112, 101, 110, 100, 101, 110, 116>>,
        Vector(4000, 9000, 6000, 4500)>>,
      \* thorough
      <<<<116, 104, 111, 114, 111, 117, 103, 104>>,
        Vector(2500, 7500, 5500, 3000)>>,
      \* introspective
      <<<<105, 110, 116, 114, 111, 115, 112, 101, 99, 116, 105, 118, 101>>,
        Vector(6000, 8500, 4000, 2500)>>,
      \* autonomous
      <<<<97, 117, 116, 111, 110, 111, 109, 111, 117, 115>>,
        Vector(3500, 9200, 6500, 5000)>>,
      \* reserved
      <<<<114, 101, 115, 101, 114, 118, 101, 100>>,
        Vector(4500, 8000, 3500, 3000)>>,
      \* assertive
      <<<<97, 115, 115, 101, 114, 116, 105, 118, 101>>,
        Vector(3500, 5000, 9000, 7000)>>,
      \* confident
      <<<<99, 111, 110, 102, 105, 100, 101, 110, 116>>,
        Vector(4000, 5500, 8500, 6000)>>,
      \* direct
      <<<<100, 105, 114, 101, 99, 116>>,
        Vector(2000, 6000, 8000, 5500)>>,
      \* bold
      <<<<98, 111, 108, 100>>,
        Vector(4500, 5000, 9500, 7500)>>,
      \* determined
      <<<<100, 101, 116, 101, 114, 109, 105, 110, 101, 100>>,
        Vector(3000, 6500, 8500, 6000)>>,
      \* driven
      <<<<100, 114, 105, 118, 101, 110>>,
        Vector(3500, 6000, 9000, 7000)>>,
      \* patient
      <<<<112, 97, 116, 105, 101, 110, 116>>,
        Vector(6000, 5000, 2500, 2000)>>,
      \* gentle
      <<<<103, 101, 110, 116, 108, 101>>,
        Vector(7500, 4000, 2000, 2500)>>,
      \* careful
      <<<<99, 97, 114, 101, 102, 117, 108>>,
        Vector(3500, 5500, 3000, 2500)>>,
      \* measured
      <<<<109, 101, 97, 115, 117, 114, 101, 100>>,
        Vector(3000, 5000, 3500, 2000)>>,
      \* calm
      <<<<99, 97, 108, 109>>,
        Vector(5500, 5000, 2500, 1500)>>,
      \* thoughtful
      <<<<116, 104, 111, 117, 103, 104, 116, 102, 117, 108>>,
        Vector(5000, 6000, 4000, 3000)>>,
      \* energetic
      <<<<101, 110, 101, 114, 103, 101, 116, 105, 99>>,
        Vector(6000, 4000, 7000, 9000)>>,
      \* dynamic
      <<<<100, 121, 110, 97, 109, 105, 99>>,
        Vector(5500, 4500, 7500, 8500)>>,
      \* responsive
      <<<<114, 101, 115, 112, 111, 110, 115, 105, 118, 101>>,
        Vector(5000, 3500, 6000, 8000)>>,
      \* quick
      <<<<113, 117, 105, 99, 107>>,
        Vector(4000, 5000, 6000, 9000)>>,
      \* agile
      <<<<97, 103, 105, 108, 101>>,
        Vector(5500, 4500, 6500, 8500)>>,
      \* deliberate
      <<<<100, 101, 108, 105, 98, 101, 114, 97, 116, 101>>,
        Vector(3000, 5500, 5000, 1500)>>,
      \* steady
      <<<<115, 116, 101, 97, 100, 121>>,
        Vector(3500, 5000, 4500, 2000)>>,
      \* persistent
      <<<<112, 101, 114, 115, 105, 115, 116, 101, 110, 116>>,
        Vector(2500, 6000, 6000, 2500)>>,
      \* curious
      <<<<99, 117, 114, 105, 111, 117, 115>>,
        Vector(6000, 4000, 6000, 6000)>>,
      \* versatile
      <<<<118, 101, 114, 115, 97, 116, 105, 108, 101>>,
        Vector(5000, 4500, 5500, 5500)>>,
      \* balanced
      <<<<98, 97, 108, 97, 110, 99, 101, 100>>,
        Vector(5000, 5000, 5000, 5000)>>,
      \* practical
      <<<<112, 114, 97, 99, 116, 105, 99, 97, 108>>,
        Vector(3500, 5000, 5500, 4500)>>,
      \* reliable
      <<<<114, 101, 108, 105, 97, 98, 108, 101>>,
        Vector(3000, 4500, 5000, 3500)>>,
      \* efficient
      <<<<101, 102, 102, 105, 99, 105, 101, 110, 116>>,
        Vector(2500, 5000, 6000, 5000)>> >>

\* String.prototype.toLowerCase for ASCII letters.
toLowerCase(str) ==
    [i \in 1..Len(str) |-> IF str[i] >= 65 /\ str[i] <= 90 THEN str[i] + 32 ELSE str[i]]

\* The white space String.prototype.trim removes: tab, line feed, vertical tab,
\* form feed, carriage return, space.
WhiteSpace == {9, 10, 11, 12, 13, 32}

RECURSIVE trimStart(_)
trimStart(str) ==
    IF Len(str) > 0 /\ str[1] \in WhiteSpace THEN trimStart(Tail(str)) ELSE str

RECURSIVE trimEnd(_)
trimEnd(str) ==
    IF Len(str) > 0 /\ str[Len(str)] \in WhiteSpace
    THEN trimEnd(SubSeq(str, 1, Len(str) - 1))
    ELSE str

trim(str) == trimEnd(trimStart(str))

\* String.prototype.includes
includes(str, search) ==
    \E i \in 0..(Len(str) - Len(search)) : SubSeq(str, i + 1, i + Len(search)) = search

\* hashTraitToVector: the hash of trait + String(seed) spread over the middle
\* of every dimension.
hashVector(h) ==
    Vector(((hashToFloat(h, 0) * 6000) \div T) + 2000,
           ((hashToFloat(h, 1) * 6000) \div T) + 2000,
           ((hashToFloat(h, 2) * 4000) \div T) + 3000,
           ((hashToFloat(h, 3) * 6000) \div T) + 2000)

hashTraitToVector(trait, seed) ==
    hashVector(hashString(trait \o DecimalString(ToWord(seed))))

\* The entries whose key is the normalized trait.
ExactMatches(normalized) ==
    {k \in 1..Len(TRAIT_EMBEDDINGS) : TRAIT_EMBEDDINGS[k][1] = normalized}

\* The entries whose key contains the normalized trait or is contained in it.
PartialMatches(normalized) ==
    {k \in 1..Len(TRAIT_EMBEDDINGS) :
        \/ includes(normalized, TRAIT_EMBEDDINGS[k][1])
        \/ includes(TRAIT_EMBEDDINGS[k][1], normalized)}

\* The least element of a non-empty set of integers.
Least(S) == CHOOSE k \in S : \A j \in S : k <= j

\* The vector of the exact match, else of the first partial match in the
\* order of the table, else None (null).
findNormalized(normalized) ==
    IF ExactMatches(normalized) # {}
    THEN TRAIT_EMBEDDINGS[Least(ExactMatches(normalized))][2]
    ELSE IF PartialMatches(normalized) # {}
    THEN TRAIT_EMBEDDINGS[Least(PartialMatches(normalized))][2]
    ELSE None

\* A lookup that finds no entry.
findTraitVectorMissing(trait) == None

findTraitVector(trait) == findNormalized(trim(toLowerCase(trait)))

\* let vector = findTraitVector(trait); if (!vector) vector = hashTraitToVector(trait, seed)
OrHashed(found, trait, seed) ==
    IF found # None THEN found ELSE hashTraitToVector(trait, seed)

vectorOf(trait, seed) == OrHashed(findTraitVector(trait), trait, seed)

\* weight = Math.max(0.2, 1.0 - i * 0.08)
weightOf(i) == Max(2000, T - (i * 800))

\* result and totalWeight after the vector v of trait i is added.
accumulate(acc, v, weight) ==
    [geometricOrganic |-> acc.geometricOrganic + (v.geometricOrganic * weight),
     connectedIsolated |-> acc.connectedIsolated + (v.connectedIsolated * weight),
     intensityScale |-> acc.intensityScale + (v.intensityScale * weight),
     motionTempo |-> acc.motionTempo + (v.motionTempo * weight),
     totalWeight |-> acc.totalWeight + weight]

\* The loop of traitsToVector from index i (0-based) on.
RECURSIVE aggregateLoop(_, _, _, _)
aggregateLoop(traits, seed, i, acc) ==
    IF i >= Len(traits) \/ acc.totalWeight < 0
    THEN acc
    ELSE aggregateLoop(traits, seed, i + 1,
                       accumulate(acc, vectorOf(traits[i + 1], seed), weightOf(i)))

\* The sums as they are, without the division by the total weight.
normalizeUnweighted(acc) ==
    Vector(acc.geometricOrganic \div T,
           acc.connectedIsolated \div T,
           acc.intensityScale \div T,
           acc.motionTempo \div T)

\* Normalize by total weight.
normalizeByWeight(acc) ==
    Vector(acc.geometricOrganic \div acc.totalWeight,
           acc.connectedIsolated \div acc.totalWeight,
           acc.intensityScale \div acc.totalWeight,
           acc.motionTempo \div acc.totalWeight)

ZeroAccumulator ==
    [geometricOrganic |-> 0, connectedIsolated |-> 0, intensityScale |-> 0,
     motionTempo |-> 0, totalWeight |-> 0]

traitsToVectorUnguarded(traits, seed) ==
    IF Len(traits) = 0
    THEN Vector(0, 0, 0, 0)
    ELSE normalizeByWeight(aggregateLoop(traits, seed, 0, ZeroAccumulator))
traitsToVector(traits, seed) ==
    IF Len(traits) = 0
    THEN Vector(5000, 5000, 5000, 5000)
    ELSE normalizeByWeight(aggregateLoop(traits, seed, 0, ZeroAccumulator))

getDefaultTraitVector == Vector(5000, 5000, 5000, 5000)

---------------------------------------------------------------------------
(* Creature: the view generates the creature for its (params,              *)
(* sessionsCount), again on every render that recomputes it, and again     *)
(* when the session count has grown.                                       *)

CreatureIdle ==
    /\ args = NoArgs
    /\ creature = None
    /\ prevCreature = None
    /\ prngState = <<0, 0>>

MaturityIdle ==
    /\ sessionsCount = 0
    /\ maturity = None

ParticlesIdle ==
    /\ particleParams = None
    /\ buffers = None
    /\ headPositions = << >>
    /\ respawnCounters = << >>
    /\ time = 0
    /\ respawned = {}
    /\ randomSources = 0
    /\ lastUpdate = None

TraitsIdle ==
    /\ traitInput = None
    /\ traitVector = None

HashIdle ==
    /\ hashInput = None
    /\ hashValue = None
    /\ prevHashValue = None

RandomIdle ==
    /\ generator = None
    /\ drawn = None

MeshIdle == bodyBuffers = None

FlowIdle == flowSample = None

ExportIdle == exporter = None

AnimationIdle == animation = None

HeadsIdle == heads = None

Init ==
    /\ args \in [params : VisualParams, sessions : {SessionCounts[1]}]
    /\ creature = None
    /\ prevCreature = None
    /\ prngState = <<0, 0>>
    /\ MaturityIdle
    /\ ParticlesIdle
    /\ TraitsIdle
    /\ HashIdle
    /\ RandomIdle
    /\ MeshIdle
    /\ FlowIdle
    /\ ExportIdle
    /\ AnimationIdle
    /\ HeadsIdle

\* The effect of one generateCreature call with result c on the state.
Generated(c, sameArguments) ==
    /\ creature' = c.val
    /\ prevCreature' = IF sameArguments THEN creature ELSE None
    /\ prngState' = c.st

\* generateCreature(params, sessionsCount) with the arguments of the call before.
Generate ==
    /\ Generated(generateCreature(args.params, args.sessions), TRUE)
    /\ UNCHANGED <<args, maturityVars, particleVars, traitVars,
                 hashVars, randomVars, meshVars, viewVars>>

\* The agent has had more sessions: generateCreature(params, the new count).
GenerateOlder ==
    \E k \in 1..(Len(SessionCounts) - 1) :
        /\ args.sessions = SessionCounts[k]
        /\ args' = [args EXCEPT !.sessions = SessionCounts[k + 1]]
        /\ Generated(generateCreature(args.params, SessionCounts[k + 1]), FALSE)
        /\ UNCHANGED <<maturityVars, particleVars, traitVars,
                 hashVars, randomVars, meshVars, viewVars>>

Next == Generate \/ GenerateOlder

Spec == Init /\ [][Next]_vars

---------------------------------------------------------------------------
(* Maturity: the session count of an agent only grows.                     *)

\* The largest session count explored.
MaxSessions == 520

InitMaturity ==
    /\ sessionsCount = 0
    /\ maturity = getMaturityConfig(0)
    /\ CreatureIdle
    /\ ParticlesIdle
    /\ TraitsIdle
    /\ HashIdle
    /\ RandomIdle
    /\ MeshIdle
    /\ FlowIdle
    /\ ExportIdle
    /\ AnimationIdle
    /\ HeadsIdle

MoreSessions ==
    \E n \in (sessionsCount + 1)..MaxSessions :
        /\ sessionsCount' = n
        /\ maturity' = getMaturityConfig(n)
        /\ UNCHANGED <<creatureVars, particleVars, traitVars,
                 hashVars, randomVars, meshVars, viewVars>>

NextMaturity == MoreSessions

SpecMaturity == InitMaturity /\ [][NextMaturity]_vars

---------------------------------------------------------------------------
(* Particles: the hook is mounted with its params, then update(time, delta) *)
(* runs once a frame.                                                      *)

\* Seeds whose particles start next to the top or the right edge, with the
\* respawn pool and without it.
ParticleSeeds == {27930, 89611}

ParticleParams ==
    [particleCount : {2}, trailLength : {1000}, seed : ParticleSeeds, animSpeed : {20000}]

\* The frame deltas: none, one below the cap and one above it.
Deltas == {0, 300, 1000}

\* The flow velocities getFlowVelocity returns: unit vectors.
Directions == {<<T, 0>>, <<0, T>>}

\* The simulated time explored.
MaxTime == 2000

InitParticlesWith(params, allocated) ==
    /\ particleParams = params
    /\ buffers = allocated
    /\ headPositions = headPositionsOf(params, allocated.positions)
    /\ time = 0
    /\ respawned = {}
    /\ randomSources = 1
    /\ lastUpdate = None

InitParticles ==
    /\ \E params \in ParticleParams :
          /\ InitParticlesWith(params, allocateBuffers(params, RESPAWN_POOL_SIZE))
          /\ respawnCounters = newRespawnCounters(params)
    /\ CreatureIdle
    /\ MaturityIdle
    /\ TraitsIdle
    /\ HashIdle
    /\ RandomIdle
    /\ MeshIdle
    /\ FlowIdle
    /\ ExportIdle
    /\ AnimationIdle
    /\ HeadsIdle

InitLegacy ==
    /\ \E params \in ParticleParams :
          /\ InitParticlesWith(params, allocateBuffersLegacy(params))
          /\ respawnCounters = << >>
    /\ CreatureIdle
    /\ MaturityIdle
    /\ TraitsIdle
    /\ HashIdle
    /\ RandomIdle
    /\ MeshIdle
    /\ FlowIdle
    /\ ExportIdle
    /\ AnimationIdle
    /\ HeadsIdle

\* What the loop of update starts from.
loopState ==
    [positions |-> buffers.positions,
     ages |-> buffers.ages,
     headPositions |-> headPositions,
     respawnCounters |-> respawnCounters,
     x |-> 0,
     y |-> 0,
     respawned |-> {},
     randomSources |-> randomSources]

\* What the loop of update leaves.
Updated(st, delta, flows) ==
    /\ lastUpdate' = [delta |-> delta, flows |-> flows]
    /\ buffers' = [buffers EXCEPT !.positions = st.positions, !.ages = st.ages]
    /\ headPositions' = st.headPositions
    /\ respawnCounters' = st.respawnCounters
    /\ respawned' = st.respawned
    /\ randomSources' = st.randomSources
    /\ time' = time + delta
    /\ UNCHANGED <<particleParams, creatureVars, maturityVars, traitVars,
                 hashVars, randomVars, meshVars, viewVars>>

\* update(time, delta) of the pooled hook.
Update ==
    \E delta \in Deltas, flows \in [1..particleParams.particleCount -> Directions] :
        /\ time + delta <= MaxTime
        /\ Updated(updateLoop(loopState, 0, particleParams, buffers.respawnData,
                              flows, cappedDelta(delta)),
                   delta, flows)

\* update(time, delta) of the legacy hook.
UpdateLegacy ==
    \E delta \in Deltas, flows \in [1..particleParams.particleCount -> Directions] :
        /\ time + delta <= MaxTime
        /\ Updated(legacyUpdateLoop(loopState, 0, particleParams, time + delta,
                                    flows, cappedDelta(delta)),
                   delta, flows)

NextParticles == Update

SpecParticles == InitParticles /\ [][NextParticles]_vars

NextLegacy == UpdateLegacy

SpecLegacy == InitLegacy /\ [][NextLegacy]_vars

---------------------------------------------------------------------------
(* Traits: the traits of an agent are aggregated into a trait vector, from *)
(* which its creature is generated.                                        *)

\* "helpful"
Helpful == <<104, 101, 108, 112, 102, 117, 108>>

\* "thorough"
Thorough == <<116, 104, 111, 114, 111, 117, 103, 104>>

\* "zany", a word the vocabulary neither holds nor overlaps.
Unknown == <<122, 97, 110, 121>>

\* "Zany", the unknown word capitalized.
UnknownCapitalized == <<90, 97, 110, 121>>

\* "precise", " Creative ", "analytic", "calm" and the four above: words of
\* the vocabulary, one to be normalized, one matching partially, one unknown
\* in two spellings.
TraitStrings ==
    {<<112, 114, 101, 99, 105, 115, 101>>,
     <<32, 67, 114, 101, 97, 116, 105, 118, 101, 32>>,
     <<97, 110, 97, 108, 121, 116, 105, 99>>,
     Unknown,
     <<99, 97, 108, 109>>,
     Helpful,
     Thorough,
     UnknownCapitalized}

\* The longest list of traits explored.
MaxTraits == 3

TraitLists == UNION {[1..n -> TraitStrings] : n \in 0..MaxTraits}

\* The session count of getDefaultCreature.
DefaultSessions == 50

InitTraits ==
    /\ traitInput \in [traits : TraitLists, seed : Seeds]
    /\ traitVector = None
    /\ CreatureIdle
    /\ MaturityIdle
    /\ ParticlesIdle
    /\ HashIdle
    /\ RandomIdle
    /\ MeshIdle
    /\ FlowIdle
    /\ ExportIdle
    /\ AnimationIdle
    /\ HeadsIdle

\* traitsToVector(traits, seed)
Aggregate ==
    /\ traitInput # None
    /\ traitVector = None
    /\ traitVector' = traitsToVector(traitInput.traits, traitInput.seed)
    /\ UNCHANGED <<traitInput, creatureVars, maturityVars, particleVars,
                 hashVars, randomVars, meshVars, viewVars>>

paramsOf(seed, vector) == [seed |-> seed, traitVector |-> vector, palette |-> DefaultPalette]

\* generateCreature for the aggregated vector.
GenerateFromTraits ==
    /\ traitVector # None
    /\ creature = None
    /\ args' = [params |-> paramsOf(traitInput.seed, traitVector),
                sessions |-> DefaultSessions]
    /\ Generated(generateCreature(paramsOf(traitInput.seed, traitVector), DefaultSessions),
                 FALSE)
    /\ UNCHANGED <<traitVars, maturityVars, particleVars,
                 hashVars, randomVars, meshVars, viewVars>>

NextTraits == Aggregate \/ GenerateFromTraits

SpecTraits == InitTraits /\ [][NextTraits]_vars

---------------------------------------------------------------------------
(* Hashing: an identifier is hashed into the seed of its agent, and hashed *)
(* again whenever the seed is needed again.                                *)

\* "a" and "z"
HashAlphabet == {97, 122}

\* The longest string over the alphabet explored: from seven characters on
\* the hash leaves the signed 32-bit range and wraps.
MaxHashLen == 7

\* "xfjfxtf", whose hash wraps to -2^31, the one value Math.abs maps to 2^31.
WrapsToMinimum == <<120, 102, 106, 102, 120, 116, 102>>

\* "claude-7f3a2b"
AgentId == <<99, 108, 97, 117, 100, 101, 45, 55, 102, 51, 97, 50, 98>>

HashStrings ==
    UNION {[1..n -> HashAlphabet] : n \in 0..MaxHashLen} \cup {WrapsToMinimum, AgentId}

InitHash ==
    /\ hashInput \in HashStrings
    /\ hashValue = None
    /\ prevHashValue = None
    /\ CreatureIdle
    /\ MaturityIdle
    /\ ParticlesIdle
    /\ TraitsIdle
    /\ RandomIdle
    /\ MeshIdle
    /\ FlowIdle
    /\ ExportIdle
    /\ AnimationIdle
    /\ HeadsIdle

\* hashString(hashInput), called for the first time or again.
Hash ==
    /\ hashValue' = [seed |-> hashString(hashInput)]
    /\ prevHashValue' = hashValue
    /\ UNCHANGED <<hashInput, creatureVars, maturityVars, particleVars, traitVars,
                   randomVars, meshVars, viewVars>>

NextHash == Hash

SpecHash == InitHash /\ [][NextHash]_vars

---------------------------------------------------------------------------
(* Seeded PRNGs: a closure is created from a seed and called again and     *)
(* again.  A returned value is kept as its numerator, a word: the closure  *)
(* of createSeededRandom returns numerator / 4294967296, the closure of    *)
(* seededRandom returns numerator / 0x7fffffff.                            *)

\* Seeds of the program (0, 42, two hashes, the largest state) and
\* 230538014, the one state s with (s * 1103515245 + 12345) mod 2^31 equal to
\* 0x7fffffff, the numerator of 1.0.
RandomSeeds == {0, 42, 27930, 230538014, 577813020, 2147483647}

\* The calls of one closure explored.
MaxDraws == 12

InitRandom ==
    /\ \E seed \in RandomSeeds :
          \/ generator = [kind |-> "createSeededRandom",
                          state |-> createSeededRandom(seed), calls |-> 0]
          \/ generator = [kind |-> "seededRandom", state |-> seed, calls |-> 0]
    /\ drawn = None
    /\ CreatureIdle
    /\ MaturityIdle
    /\ ParticlesIdle
    /\ TraitsIdle
    /\ HashIdle
    /\ MeshIdle
    /\ FlowIdle
    /\ ExportIdle
    /\ AnimationIdle
    /\ HeadsIdle

Called(state, numerator) ==
    /\ generator' = [generator EXCEPT !.state = state, !.calls = generator.calls + 1]
    /\ drawn' = [numerator |-> numerator]
    /\ UNCHANGED <<creatureVars, maturityVars, particleVars, traitVars, hashVars,
                   meshVars, viewVars>>

\* One call of the closure of createSeededRandom.
CallRandom ==
    /\ generator.kind = "createSeededRandom"
    /\ generator.calls < MaxDraws
    /\ Called(Advance(generator.state, 1), Draw(generator.state, 1))

\* One call of the closure of seededRandom.
CallSeededRandom ==
    /\ generator.kind = "seededRandom"
    /\ generator.calls < MaxDraws
    /\ Called(seededRandomNext(generator.state),
              ToWord(seededRandomNext(generator.state)))

NextRandom == CallRandom \/ CallSeededRandom

SpecRandom == InitRandom /\ [][NextRandom]_vars

---------------------------------------------------------------------------
(* Mesh: the body component receives the body of a generated creature and  *)
(* builds its buffers once.                                                *)

InitMesh ==
    /\ args \in [params : VisualParams,
                  sessions : {SessionCounts[k] : k \in 1..Len(SessionCounts)}]
    /\ creature = generateCreature(args.params, args.sessions).val
    /\ prevCreature = None
    /\ prngState = <<0, 0>>
    /\ bodyBuffers = None
    /\ MaturityIdle
    /\ ParticlesIdle
    /\ TraitsIdle
    /\ HashIdle
    /\ RandomIdle
    /\ FlowIdle
    /\ ExportIdle
    /\ AnimationIdle
    /\ HeadsIdle

\* useMemo(() => generateBodyBuffers(body, 12345), [body])
BuildBody ==
    /\ bodyBuffers = None
    /\ bodyBuffers' = generateBodyBuffers(creature.body)
    /\ UNCHANGED <<creatureVars, maturityVars, particleVars, traitVars, hashVars,
                   randomVars, viewVars>>

NextMesh == BuildBody

SpecMesh == InitMesh /\ [][NextMesh]_vars

---------------------------------------------------------------------------
(* The flow field.  snoise2D of the CPU sampler and snoise of the shader   *)
(* are the same function of a point and are left uninterpreted: a noise    *)
(* lookup is named by the point it is made at, an FBM value by its         *)
(* weighted lookups, and two computations are the same when they are the   *)
(* same sum of the same lookups.  A coordinate is base + factor * field,   *)
(* the field being an FBM value (the empty sum for a plain number).        *)

Coordinate(base, factor, field) == [base |-> base, factor |-> factor, field |-> field]

\* coordinate * frequency + seed
Octave(c, frequency, seed) ==
    Coordinate((c.base * frequency) + seed, c.factor * frequency, c.field)

\* value += amplitude * snoise(p * frequency + seed), octaves times over.
noiseSum(x, y, seed, octaves) ==
    [i \in 1..octaves |->
        [amplitude |-> T \div (2 ^ i),
         x |-> Octave(x, 2 ^ (i - 1), seed),
         y |-> Octave(y, 2 ^ (i - 1), seed)]]

\* fbm(x, y, seed) of the CPU sampler.
fbm(x, y, seed) == noiseSum(x, y, seed, 5)

\* fbm(p, seed) of the shader.
shaderFbm(p, seed) == noiseSum(p[1], p[2], seed, 4)

\* fbmLight(p, seed) of the shader.
fbmLight(p, seed) == noiseSum(p[1], p[2], seed, 3)

\* a * b of two fixed-point numbers.
Times(a, b) == (a * b) \div T

\* getFlowVelocity, up to the three values of the final field the velocity
\* is the rotated, normalized gradient of.
getFlowVelocity(posX, posY, time_, seed, complexity, organicness) ==
    LET s == Times(seed, 10)
        t == Times(time_, 1000)
        px == Times(posX, complexity)
        py == Times(posY, complexity)
        q_x == fbm(Coordinate(px + s, 0, << >>), Coordinate(py + s, 0, << >>), s)
        q_y == fbm(Coordinate(px + 52000 + s, 0, << >>),
                   Coordinate(py + 13000 + s, 0, << >>), s + T)
        r_x == fbm(Coordinate(px + 17000 + t, 4 * T, q_x),
                   Coordinate(py + 92000 + t, 4 * T, q_y), s + (2 * T))
        r_y == fbm(Coordinate(px + 83000 + t, 4 * T, q_x),
                   Coordinate(py + 28000 + t, 4 * T, q_y), s + (3 * T))
        eps == 100
        warpedX == Coordinate(px, Times(4 * T, organicness), r_x)
        warpedY == Coordinate(py, Times(4 * T, organicness), r_y)
    IN  [f0 |-> fbm(warpedX, warpedY, s + (4 * T)),
         fx |-> fbm([warpedX EXCEPT !.base = @ + eps], warpedY, s + (4 * T)),
         fy |-> fbm(warpedX, [warpedY EXCEPT !.base = @ + eps], s + (4 * T))]

\* main of flowField.frag, up to the field f the colours are mixed by.
shaderMain(vUv, uTime, uSeed, uComplexity, uOrganicness) ==
    LET time_ == Times(uTime, 1000)
        seed == Times(uSeed, 10)
        px == Times(vUv[1], uComplexity)
        py == Times(vUv[2], uComplexity)
        q == <<fbmLight(<<Coordinate(px + seed, 0, << >>),
                          Coordinate(py + seed, 0, << >>)>>, seed),
               fbmLight(<<Coordinate(px + 52000 + seed, 0, << >>),
                          Coordinate(py + 13000 + seed, 0, << >>)>>, seed + T)>>
    IN  [q |-> q,
         f |-> shaderFbm(<<Coordinate(px + time_, Times(4 * T, uOrganicness), q[1]),
                           Coordinate(py + time_, Times(4 * T, uOrganicness), q[2])>>,
                         seed + (2 * T))]

\* The points, times and parameters the field is sampled with.
FlowPoints == {0, 2500, 5000, T}
FlowTimes == {0, T, 25000}
FlowSeeds == {0, 42 * T}
FlowParams == {[complexity |-> 3 * T, organicness |-> 7000],
               [complexity |-> 2 * T, organicness |-> 0]}

InitFlow ==
    /\ flowSample = None
    /\ CreatureIdle
    /\ MaturityIdle
    /\ ParticlesIdle
    /\ TraitsIdle
    /\ HashIdle
    /\ RandomIdle
    /\ MeshIdle
    /\ ExportIdle
    /\ AnimationIdle
    /\ HeadsIdle

\* One point of the view, sampled by update on the CPU and drawn by the shader.
SampleFlow ==
    \E x \in FlowPoints, y \in FlowPoints, now \in FlowTimes, seed \in FlowSeeds,
       params \in FlowParams :
        /\ flowSample' =
              [at |-> <<x, y, now, seed, params>>,
               cpu |-> getFlowVelocity(x, y, now, seed, params.complexity,
                                       params.organicness),
               gpu |-> shaderMain(<<x, y>>, now, seed, params.complexity,
                                  params.organicness)]
        /\ UNCHANGED <<creatureVars, maturityVars, particleVars, traitVars, hashVars,
                       randomVars, meshVars, exporter, animation, heads>>

NextFlow == SampleFlow

SpecFlow == InitFlow /\ [][NextFlow]_vars

---------------------------------------------------------------------------
(* The wild body component (its generateBodyBuffers takes the seed and the *)
(* traits): the perimeter depends on the form the traits choose.           *)

\* Math.floor(w / 4294967296 * 3)
FloorTimes3(w) == ((3 * w[1]) + ((3 * w[2]) \div W16)) \div W16

\* const sides = 5 + Math.floor(random() * 3), at perimeter vertex i (from 0):
\* the centre has made one call, every vertex before it two.
sidesAt(random, i) == 5 + FloorTimes3(Draw(random, 2 + (2 * i)))

\* generateBodyBuffers(body, seed, traits) of the wild component.  sides
\* keeps, for a cosmic form, the side count each perimeter vertex was
\* placed with; the positions are not kept.
generateBodyBuffersWild(body, seed, traits) ==
    LET random == createSeededRandom(seed)
        isCosmic == traits.geometricOrganic < 3000
    IN  [vertexCount |-> body.resolution + 1,
         triangleCount |-> body.resolution,
         edgeFactors |-> edgeFactorsOf(body.resolution + 1),
         angles |-> anglesOf(body.resolution),
         indices |-> fanIndices(body.resolution),
         isCosmic |-> isCosmic,
         sides |-> IF isCosmic
                   THEN [v \in 1..body.resolution |-> sidesAt(random, v - 1)]
                   ELSE << >>]

\* useMemo(() => generateBodyBuffers(body, 12345, traitVector), [body, traitVector])
BuildWildBody ==
    /\ bodyBuffers = None
    /\ bodyBuffers' = generateBodyBuffersWild(creature.body, 12345, args.params.traitVector)
    /\ UNCHANGED <<creatureVars, maturityVars, particleVars, traitVars, hashVars,
                   randomVars, viewVars>>

NextWild == BuildWildBody

SpecWild == InitMesh /\ [][NextWild]_vars

---------------------------------------------------------------------------
(* The head of one particle, exactly.  headPositions and respawnData are   *)
(* Float32Arrays: a number written to them is rounded to 24 significant    *)
(* bits.  Here a number is a whole count of units of 2^-30, which holds    *)
(* every Float32 from 2^-6 to 2 and every sum the update forms of them     *)
(* when the flow is along an axis and delta * speed is itself a whole      *)
(* count of units, so that the arithmetic of update is followed bit for    *)
(* bit.  The trail and the ages, which the head does not depend on, are    *)
(* left to the model above.                                                *)

Q30 == 2 ^ 30

\* 0x7fffffff
LcgModulus == Q30 + (Q30 - 1)

\* The distance between neighbouring Float32 values at n units, n >= 0.
RECURSIVE Spacing(_)
Spacing(n) == IF n < 2 ^ 24 THEN 1 ELSE 2 * Spacing(n \div 2)

\* The Float32 nearest to n units and a fraction of a unit (sticky: the
\* fraction is not zero), ties to even, for n >= 0.
RoundToSpacing(n, g, sticky) ==
    LET low == n % g
        down == n - low
    IN  IF 2 * low < g THEN down
        ELSE IF (2 * low > g) \/ sticky THEN down + g
        ELSE IF (down \div g) % 2 = 0 THEN down
        ELSE down + g

\* Math.fround(n), what a Float32Array keeps of the double n.
fround(n) ==
    IF n < 0 THEN 0 - RoundToSpacing(0 - n, Spacing(0 - n), FALSE)
    ELSE RoundToSpacing(n, Spacing(n), FALSE)

\* <<floor(r * 2^n / 0x7fffffff), whether a remainder is left>>, r < 0x7fffffff,
\* by long division; acc holds the quotient bits found so far.
RECURSIVE ScaledQuotient(_, _, _)
ScaledQuotient(r, n, acc) ==
    IF n = 0 THEN <<acc, r > 0>>
    ELSE IF r >= LcgModulus - r
    THEN ScaledQuotient(r - (LcgModulus - r), n - 1, (2 * acc) + 1)
    ELSE ScaledQuotient(r + r, n - 1, 2 * acc)

\* (random() - 0.5) * 2 as stored in a Float32Array, s the state the call of
\* random left: (2s - 0x7fffffff) / 0x7fffffff rounded once.
Centered32(s) ==
    LET a == (s - LcgModulus) + s
        magnitude == IF a < 0 THEN 0 - a ELSE a
        q == IF magnitude = LcgModulus THEN <<Q30, FALSE>>
             ELSE ScaledQuotient(magnitude, 30, 0)
        stored == RoundToSpacing(q[1], Spacing(q[1]), q[2])
    IN  IF a < 0 THEN 0 - stored ELSE stored

\* 1 + margin * 0.5 = 1.05 as stored in respawnData: 1.0499999523162842
PoolEdge32 == RoundToSpacing(1127428915, 128, TRUE)

\* The pool entry on the edge chosen by sEdge, at the coordinate drawn next.
respawnPosition32(sEdge, sCoord) ==
    CASE LcgEdge(sEdge) = 0 -> <<Centered32(sCoord), 0 - PoolEdge32>>
      [] LcgEdge(sEdge) = 1 -> <<Centered32(sCoord), PoolEdge32>>
      [] LcgEdge(sEdge) = 2 -> <<0 - PoolEdge32, Centered32(sCoord)>>
      [] OTHER -> <<PoolEdge32, Centered32(sCoord)>>

\* The buffers useMemo and the refs useMemo for particleCount = 1: the pool
\* of the particle, then startX and startY, all from one closure.
allocateHeads(params) ==
    LET draws == seededRandomStates(params.seed, (RESPAWN_POOL_SIZE * 2) + 2, << >>)
    IN  [params |-> params,
         respawnData |->
            [r \in 1..RESPAWN_POOL_SIZE |->
                respawnPosition32(draws[(2 * r) - 1], draws[2 * r])],
         x |-> Centered32(draws[(RESPAWN_POOL_SIZE * 2) + 1]),
         y |-> Centered32(draws[(RESPAWN_POOL_SIZE * 2) + 2]),
         respawnCounter |-> 0,
         respawned |-> FALSE,
         frames |-> 0]

\* floor((1 + margin) * 2^30): a whole count x of units has x > 1 + margin
\* exactly when x > BoxEdge32.
BoxEdge32 == 1181116006

\* floor(0.05 * 2^30)
MaxDelta32 == 53687091

\* One pass of the loop of update(time, delta) for the particle, flow the
\* velocity getFlowVelocity returned.  The deltas explored are below 0.05,
\* so that dt is a whole count of units.
updateHead(h, flow, delta) ==
    LET dt == Min(delta, MaxDelta32)
        speed == h.params.animSpeed \div 2
        x == h.x + (flow[1] * dt * speed)
        y == h.y + (flow[2] * dt * speed)
        out == \/ x < 0 - BoxEdge32
               \/ x > BoxEdge32
               \/ y < 0 - BoxEdge32
               \/ y > BoxEdge32
        entry == h.respawnData[h.respawnCounter + 1]
    IN  [h EXCEPT !.x = IF out THEN entry[1] ELSE fround(x),
                  !.y = IF out THEN entry[2] ELSE fround(y),
                  !.respawnCounter = IF out THEN (@ + 1) % RESPAWN_POOL_SIZE ELSE @,
                  !.respawned = out,
                  !.frames = @ + 1]

\* One particle; animSpeed 2 makes speed 1.
HeadParams == [seed : {139, 974}, particleCount : {1}, animSpeed : {2}]

\* delta: 2^-5 s, and a frame of about 0.01449 s.
HeadDeltas == {33554432, 15559390}

\* The flow velocities getFlowVelocity returns: unit vectors.
HeadDirections == {<<1, 0>>, <<0, 1>>, <<-1, 0>>}

\* The update calls explored.
MaxFrames == 6

InitHeads ==
    /\ heads \in {allocateHeads(params) : params \in HeadParams}
    /\ CreatureIdle
    /\ MaturityIdle
    /\ ParticlesIdle
    /\ TraitsIdle
    /\ HashIdle
    /\ RandomIdle
    /\ MeshIdle
    /\ FlowIdle
    /\ ExportIdle
    /\ AnimationIdle

\* update(time, delta)
UpdateHeads ==
    \E delta \in HeadDeltas, flow \in HeadDirections :
        /\ heads.frames < MaxFrames
        /\ heads' = updateHead(heads, flow, delta)
        /\ UNCHANGED <<creatureVars, maturityVars, particleVars, traitVars, hashVars,
                       randomVars, meshVars, flowSample, exporter, animation>>

NextHeads == UpdateHeads

SpecHeads == InitHeads /\ [][NextHeads]_vars

---------------------------------------------------------------------------
(* Remounting: the view is given another seed while it is mounted.  The    *)
(* buffers useMemo runs again (seed is one of its dependencies) and so     *)
(* does the refs useMemo (buffers is one of its dependencies); the refs    *)
(* themselves outlive the render.                                          *)

\* The closures of seededRandom one view is allowed to create.
MaxAllocations == 2

\* if (!respawnCounters.current || respawnCounters.current.length !== countersSize)
\*   respawnCounters.current = new Uint8Array(countersSize)
resizedRespawnCounters(counters, params) ==
    IF Len(counters) # params.particleCount
    THEN newRespawnCounters(params)
    ELSE counters

\* A render with another seed: both useMemo callbacks run again.
Reallocate ==
    \E seed \in ParticleSeeds :
        /\ seed # particleParams.seed
        /\ randomSources < MaxAllocations
        /\ particleParams' = [particleParams EXCEPT !.seed = seed]
        /\ buffers' = allocateBuffers(particleParams', RESPAWN_POOL_SIZE)
        /\ headPositions' = headPositionsOf(particleParams', buffers'.positions)
        /\ respawnCounters' = resizedRespawnCounters(respawnCounters, particleParams')
        /\ respawned' = {}
        /\ randomSources' = randomSources + 1
        /\ lastUpdate' = None
        /\ UNCHANGED <<time, creatureVars, maturityVars, traitVars, hashVars, randomVars,
                       meshVars, viewVars>>

NextRemount == Update \/ Reallocate

\* The view is mounted with the first seed and given the other one later.
InitRemount ==
    /\ InitParticles
    /\ \A seed \in ParticleSeeds : particleParams.seed <= seed

SpecRemount == InitRemount /\ [][NextRemount]_vars

---------------------------------------------------------------------------
(* The export hook (lib/export/hooks/useExport.ts).  startExport is an     *)
(* async function: between two of its awaits the code runs without         *)
(* interruption, and while it waits other tasks run, the callbacks of its  *)
(* own exporter and the timers of earlier exports among them.  The clock   *)
(* counts seconds.                                                         *)

ExportFormats == {"png", "gif", "video"}

\* canExport(format, caps)
canExport(format, caps) ==
    CASE format = "png" -> caps.webgl2
      [] format = "video" -> caps.webgl2 /\ caps.mediaRecorder
      [] format = "gif" -> caps.webgl2 /\ caps.webWorkers

\* The phase reported when the exporter of a format reaches each of its
\* awaits: exportPng waits for toBlob; exportGif for gif.js to load and for
\* the encoder to finish; exportVideo for the recording and for the
\* conversion.
waitsOf(format) ==
    CASE format = "png" -> <<"capturing">>
      [] format = "gif" -> <<"preparing", "encoding">>
      [] format = "video" -> <<"capturing", "encoding">>

\* The awaits during which the exporter reports progress from callbacks.
reportsProgress(format, wait) ==
    \/ format = "gif" /\ wait = 2
    \/ format = "video"

\* setTimeout(..., 2000), in seconds
ResetDelay == 2

\* The seconds explored.
MaxClock == 6

ExportCapabilities ==
    {[webgl2 |-> TRUE, mediaRecorder |-> TRUE, webWorkers |-> TRUE],
     [webgl2 |-> TRUE, mediaRecorder |-> FALSE, webWorkers |-> TRUE]}

InitExport ==
    /\ exporter \in
          [captureRef : {FALSE},
           capabilities : ExportCapabilities,
           exporting : {FALSE},
           progress : {"idle"},
           running : {"none"},
           wait : {0},
           timers : {{}},
           now : {0},
           result : {"none"}]
    /\ CreatureIdle
    /\ MaturityIdle
    /\ ParticlesIdle
    /\ TraitsIdle
    /\ HashIdle
    /\ RandomIdle
    /\ MeshIdle
    /\ FlowIdle
    /\ AnimationIdle
    /\ HeadsIdle

ExportUnchanged ==
    UNCHANGED <<creatureVars, maturityVars, particleVars, traitVars, hashVars,
                randomVars, meshVars, flowSample, animation, heads>>

\* registerCapture(capture)
RegisterCapture ==
    /\ ~exporter.captureRef
    /\ exporter' = [exporter EXCEPT !.captureRef = TRUE]
    /\ ExportUnchanged

\* startExport(format), from a button that is disabled while the store says
\* exporting: up to the first await of the exporter.
StartExport ==
    \E format \in ExportFormats :
        /\ ~exporter.exporting
        /\ exporter' =
              IF ~exporter.captureRef
              THEN [exporter EXCEPT !.result = "Canvas not ready"]
              ELSE IF ~canExport(format, exporter.capabilities)
              THEN [exporter EXCEPT !.result = "Export not supported"]
              ELSE [exporter EXCEPT !.exporting = TRUE,
                                    !.progress = waitsOf(format)[1],
                                    !.running = format,
                                    !.wait = 1,
                                    !.result = "pending"]
        /\ exporter' # exporter
        /\ ExportUnchanged

\* A progress callback of the exporter that is running.
ReportProgress ==
    /\ exporter.running # "none"
    /\ reportsProgress(exporter.running, exporter.wait)
    /\ exporter' = [exporter EXCEPT !.progress = waitsOf(exporter.running)[exporter.wait]]
    /\ exporter' # exporter
    /\ ExportUnchanged

\* finally: setExporting(false) and setTimeout(reset to idle, 2000)
settled(e, phase, result) ==
    [e EXCEPT !.exporting = FALSE,
              !.progress = phase,
              !.running = "none",
              !.wait = 0,
              !.timers = @ \cup {e.now + ResetDelay},
              !.result = result]

\* The await of the exporter resolves: it runs to its next await, or returns
\* its result, and startExport downloads it and reports complete.
Resume ==
    /\ exporter.running # "none"
    /\ exporter' =
          IF exporter.wait < Len(waitsOf(exporter.running))
          THEN [exporter EXCEPT !.wait = @ + 1,
                                !.progress = waitsOf(exporter.running)[exporter.wait + 1]]
          ELSE settled(exporter, "complete", "success")
    /\ ExportUnchanged

\* The await of the exporter rejects: the exporter returns a failure, or
\* throws, and startExport reports the error.
Fail ==
    /\ exporter.running # "none"
    /\ exporter' = settled(exporter, "error", "failure")
    /\ ExportUnchanged

\* The callback of a timer that is due: setProgress({ phase: "idle", ... })
ResetToIdle ==
    \E due \in exporter.timers :
        /\ due <= exporter.now
        /\ exporter' = [exporter EXCEPT !.progress = "idle", !.timers = @ \ {due}]
        /\ ExportUnchanged

\* A second passes; the timers that are due have run.
Tick ==
    /\ exporter.now < MaxClock
    /\ \A due \in exporter.timers : due > exporter.now
    /\ exporter' = [exporter EXCEPT !.now = @ + 1]
    /\ ExportUnchanged

NextExport ==
    \/ RegisterCapture
    \/ StartExport
    \/ ReportProgress
    \/ Resume
    \/ Fail
    \/ ResetToIdle
    \/ Tick

SpecExport == InitExport /\ [][NextExport]_vars

---------------------------------------------------------------------------
(* The animation hook (hooks/useCreatureAnimation.ts)                      *)
(*                                                                         *)
(* animation is the hook instance of one mounted Creature component:       *)
(*   creature : the creature of the latest render,                         *)
(*   eyes     : stateRef.current.eyes, one record of blinkAmount,          *)
(*              blinkTimer and isBlinking per entry,                       *)
(*   thrown   : update has thrown a TypeError.                             *)
(* Times are seconds in fixed point. The gaze, the pupil and the breath    *)
(* are left out: they neither read nor write the blink fields or the       *)
(* length of eyes.                                                         *)

\* seededRandom(seed) is the fractional part of sin(seed) * 10000, a number
\* of [0, 1) that jumps with every change of its argument: the values it is
\* taken to return.
HashedValues == {0, 5000, 9999}

easeInOut(t) ==
    IF 2 * t < T THEN (2 * t * t) \div T
    ELSE T - ((((2 * T) - (2 * t)) * ((2 * T) - (2 * t))) \div T) \div 2

\* One entry of eyeStates; hashed is seededRandom(eyeSeed + 2).
newEyeState(hashed) ==
    [blinkAmount |-> 0, blinkTimer |-> hashed * 5, isBlinking |-> FALSE]

\* The lazy initialization: runs while stateRef.current is null only.
newAnimationState(shown, hashed) ==
    [i \in 1..Len(shown.eyes) |-> newEyeState(hashed[i])]

\* A blink that ends and leaves the lid where the opening phase had it.
completeBlinkLidKept(eyeState, eyeBehavior, hashed) ==
    [blinkAmount |-> eyeState.blinkAmount,
     blinkTimer |-> (((60 * T * 100) \div (eyeBehavior.blinkRate \div 100))
                     * (7000 + ((hashed * 6000) \div T))) \div T,
     isBlinking |-> FALSE]

\* The branch "Blink complete"; hashed is seededRandom(time * 1000).
completeBlink(eyeState, eyeBehavior, hashed) ==
    [blinkAmount |-> 0,
     blinkTimer |-> (((60 * T * 100) \div (eyeBehavior.blinkRate \div 100))
                     * (7000 + ((hashed * 6000) \div T))) \div T,
     isBlinking |-> FALSE]

\* The blink part of updateEye.
updateEye(eyeState, config, delta, hashed) ==
    LET blinkTimer == eyeState.blinkTimer - delta
        blinkDuration == config.behavior.blinkDuration
        closeTime == (blinkDuration * 4000) \div T
        holdTime == (blinkDuration * 2000) \div T
        openTime == (blinkDuration * 4000) \div T
    IN  IF eyeState.isBlinking
        THEN IF blinkTimer > closeTime + holdTime
             THEN [eyeState EXCEPT
                     !.blinkTimer = blinkTimer,
                     !.blinkAmount =
                         easeInOut(T - (((blinkTimer - closeTime - holdTime) * T)
                                        \div openTime))]
             ELSE IF blinkTimer > closeTime
             THEN [eyeState EXCEPT !.blinkTimer = blinkTimer, !.blinkAmount = T]
             ELSE IF blinkTimer > 0
             THEN [eyeState EXCEPT
                     !.blinkTimer = blinkTimer,
                     !.blinkAmount = easeInOut((blinkTimer * T) \div closeTime)]
             ELSE completeBlink(eyeState, config.behavior, hashed)
        ELSE IF blinkTimer <= 0
        THEN [eyeState EXCEPT !.isBlinking = TRUE, !.blinkTimer = blinkDuration]
        ELSE [eyeState EXCEPT !.blinkTimer = blinkTimer]

\* Math.min(delta, 0.1)
clampedDelta(delta) == Min(delta, 1000)

\* update(time, delta): the loop runs over state.eyes and reads eyes[i] of
\* the creature of the latest render. Where that creature has no eye i,
\* the config is undefined and updateEye throws on its first line, with the
\* eyes before i updated and the others not.
update(state, eyes, delta, hashed) ==
    [eyes |-> [i \in 1..Len(state) |->
                  IF \A j \in 1..i : j <= Len(eyes)
                  THEN updateEye(state[i], eyes[i], clampedDelta(delta), hashed[i])
                  ELSE state[i]],
     thrown |-> Len(state) > Len(eyes)]

\* Frame times: 16 ms, 100 ms, and a stall of 250 ms.
FrameDeltas == {160, 1000, 2500}
SlowFrameDeltas == {1000}

\* The most eyes the creatures of AnimatedCreatures have.
MaxAnimatedEyes == 2

\* The creatures of one agent: its traits at two intensities, before and
\* after its first ten sessions.
AnimatedParams ==
    {p \in VisualParams :
        /\ p.seed = 42
        /\ p.traitVector.geometricOrganic = 5000
        /\ p.traitVector.connectedIsolated = 5000
        /\ p.traitVector.intensityScale \in {0, 6000}}

AnimatedCreatures ==
    {generateCreature(p, n).val : p \in AnimatedParams, n \in {0, 11}}

Mounted(shown, hashed) ==
    [creature |-> shown,
     eyes |-> newAnimationState(shown, hashed),
     thrown |-> FALSE]

AnimationUnchanged ==
    UNCHANGED <<creatureVars, maturityVars, particleVars, traitVars, hashVars,
                randomVars, meshVars, flowSample, exporter, heads>>

AnimationOthersIdle ==
    /\ CreatureIdle
    /\ MaturityIdle
    /\ ParticlesIdle
    /\ TraitsIdle
    /\ HashIdle
    /\ RandomIdle
    /\ MeshIdle
    /\ FlowIdle
    /\ ExportIdle
    /\ HeadsIdle

\* The first render of the component.
InitAnimation ==
    /\ \E shown \in AnimatedCreatures :
         \E hashed \in [1..Len(shown.eyes) -> HashedValues] :
            animation = Mounted(shown, hashed)
    /\ AnimationOthersIdle

\* The first render of a creature with one eye.
InitBlink ==
    /\ InitAnimation
    /\ Len(animation.creature.eyes) = 1

\* useFrame calls animation.update(state.clock.elapsedTime, delta).
UpdateFrame(deltas) ==
    /\ ~animation.thrown
    /\ \E delta \in deltas :
         \E hashed \in [1..Len(animation.eyes) -> HashedValues] :
            animation' =
                [animation EXCEPT
                   !.eyes = update(animation.eyes, animation.creature.eyes,
                                   delta, hashed).eyes,
                   !.thrown = update(animation.eyes, animation.creature.eyes,
                                     delta, hashed).thrown]
    /\ AnimationUnchanged

UpdateAnimation == UpdateFrame(FrameDeltas)

UpdateSlowly == UpdateFrame(SlowFrameDeltas)

\* The component renders again with another creature: stateRef.current is
\* set, the lazy initialization is skipped, and update closes over the new
\* eyes.
Rerender ==
    /\ ~animation.thrown
    /\ \E shown \in AnimatedCreatures :
         /\ shown # animation.creature
         /\ animation' = [animation EXCEPT !.creature = shown]
    /\ AnimationUnchanged

NextRerender == UpdateSlowly \/ Rerender

SpecRerender == InitAnimation /\ [][NextRerender]_vars

NextBlink == UpdateAnimation

\* The render loop calls update on every frame.
SpecBlink == InitBlink /\ [][NextBlink]_vars /\ WF_vars(UpdateAnimation)

---------------------------------------------------------------------------
(* Properties of the creature pipeline (Spec) and of maturity              *)
(* (SpecMaturity).                                                         *)

StageRank(stage) ==
    CASE stage = "nascent" -> 0 [] stage = "developing" -> 1
      [] stage = "mature" -> 2 [] stage = "elder" -> 3

BoolRank(b) == IF b THEN 1 ELSE 0

\* C3: for session counts s1 < s2 the configuration of s2 has a stage at
\* least as late as that of s1, and maxEyes, hasNucleus, hasCirculation and
\* appendageComplexity at least as large.
C3_Monotonic ==
    [][sessionsCount' > sessionsCount =>
          /\ StageRank(maturity'.stage) >= StageRank(maturity.stage)
          /\ maturity'.maxEyes >= maturity.maxEyes
          /\ BoolRank(maturity'.hasNucleus) >= BoolRank(maturity.hasNucleus)
          /\ BoolRank(maturity'.hasCirculation) >= BoolRank(maturity.hasCirculation)
          /\ maturity'.appendageComplexity >= maturity.appendageComplexity]_vars

\* The session count has grown into the mature band.
C3_Witness == sessionsCount > MatureMax - 50 /\ maturity.stage = "mature"

\* <<maxEyes, hasNucleus, hasCirculation, appendageComplexity>>
Capabilities(mat) ==
    <<mat.maxEyes, mat.hasNucleus, mat.hasCirculation, mat.appendageComplexity>>

\* C4: nascent for 0..10 sessions, developing for 11..100, mature for
\* 101..500 and elder from 501 on, with the capabilities (1,F,F,0),
\* (2,T,F,1), (3,T,T,2) and (3,T,T,3); 42 sessions give developing.
C4_StageBands ==
    /\ sessionsCount \in 0..10 =>
          maturity.stage = "nascent" /\ Capabilities(maturity) = <<1, FALSE, FALSE, 0>>
    /\ sessionsCount \in 11..100 =>
          maturity.stage = "developing" /\ Capabilities(maturity) = <<2, TRUE, FALSE, 1>>
    /\ sessionsCount \in 101..500 =>
          maturity.stage = "mature" /\ Capabilities(maturity) = <<3, TRUE, TRUE, 2>>
    /\ sessionsCount >= 501 =>
          maturity.stage = "elder" /\ Capabilities(maturity) = <<3, TRUE, TRUE, 3>>
    /\ sessionsCount = 42 =>
          maturity.stage = "developing" /\ Capabilities(maturity) = <<2, TRUE, FALSE, 1>>

\* The first session count of the elder band has been configured.
C4_Witness == sessionsCount = 501 /\ maturity.sessionsCount = 501

\* C5: the eyes array has at least 1 and at most maturity.maxEyes entries.
C5_EyeCount ==
    creature # None =>
        Len(creature.eyes) >= 1 /\ Len(creature.eyes) <= creature.maturity.maxEyes

\* A nascent creature whose intensity asks for more than one eye, cut to the
\* one eye its maturity allows.
C5_Witness ==
    /\ creature # None
    /\ args.params.traitVector.intensityScale >= 3000
    /\ creature.maturity.maxEyes = 1
    /\ Len(creature.eyes) = 1

\* C6: whenever maturity.appendageComplexity is 0 the creature is nascent, has
\* exactly one eye, no nucleus and no appendages.
C6_Nascent ==
    (creature # None /\ creature.maturity.appendageComplexity = 0) =>
        /\ creature.maturity.stage = "nascent"
        /\ Len(creature.eyes) = 1
        /\ creature.body.nucleus = None
        /\ creature.appendages = << >>

\* A creature of zero sessions with the most organic and intense traits.
C6_Witness ==
    /\ creature # None
    /\ args.sessions = 0
    /\ creature.maturity.appendageComplexity = 0
    /\ args.params.traitVector.geometricOrganic = 7100
    /\ args.params.traitVector.intensityScale = 6000

\* C10: the body plan is radial exactly when geometricOrganic < 0.3,
\* bilateral when geometricOrganic > 0.7, and for 0.3 <= geometricOrganic <= 0.7
\* bilateral when connectedIsolated <= 0.5 and asymmetric otherwise.
C10_BodyPlan ==
    creature # None =>
        LET go == args.params.traitVector.geometricOrganic
            ci == args.params.traitVector.connectedIsolated
            plan == creature.body.plan
        IN  /\ (plan = "radial") <=> (go < 3000)
            /\ go > 7000 => plan = "bilateral"
            /\ (go >= 3000 /\ go <= 7000 /\ ci <= 5000) => plan = "bilateral"
            /\ (go >= 3000 /\ go <= 7000 /\ ci > 5000) => plan = "asymmetric"

\* A body generated from geometricOrganic = 0.3 exactly, in the middle band.
C10_Witness ==
    /\ creature # None
    /\ args.params.traitVector.geometricOrganic = 3000
    /\ args.params.traitVector.connectedIsolated = 5100
    /\ creature.body.plan = "asymmetric"

\* The appendage types present in the creature.
AppendageTypes == {creature.appendages[i].type : i \in 1..Len(creature.appendages)}

\* C13: for every trait vector and every maturity with appendageComplexity
\* at least 1, the set of appendage types generateAppendages produces is
\* {spoke}, {limb}, {tail}, {tendril} or {tendril, tail}: no cilia, no
\* antenna and no other combination.
C13_AppendageTypes ==
    (creature # None /\ creature.maturity.appendageComplexity >= 1) =>
        AppendageTypes \in {{"spoke"}, {"limb"}, {"tail"}, {"tendril"},
                            {"tendril", "tail"}}

\* An organic, isolated creature has grown tendrils and a tail.
C13_Witness ==
    /\ creature # None
    /\ creature.maturity.appendageComplexity >= 1
    /\ AppendageTypes = {"tendril", "tail"}

\* C14: an eye glows only if the stage is elder: every eye of a nascent,
\* developing or mature creature has glowing false and no glowColor.
C14_GlowOnlyElder ==
    (creature # None /\ creature.maturity.stage # "elder") =>
        \A i \in 1..Len(creature.eyes) :
            /\ creature.eyes[i].pupil.glowing = FALSE
            /\ creature.eyes[i].pupil.glowColor = None

\* A mature creature with three eyes, none of them glowing.
C14_Witness ==
    /\ creature # None
    /\ creature.maturity.stage = "mature"
    /\ Len(creature.eyes) = 3
    /\ \A i \in 1..3 : ~creature.eyes[i].pupil.glowing

---------------------------------------------------------------------------
(* Properties of traitsToVector (SpecTraits).                              *)

\* C9: traitsToVector([], seed) is {0.5, 0.5, 0.5, 0.5} for every seed, and the
\* body plan generated from it is bilateral.
C9_EmptyTraits ==
    (traitInput # None /\ traitVector # None /\ Len(traitInput.traits) = 0) =>
        /\ traitVector.geometricOrganic = 5000
        /\ traitVector.connectedIsolated = 5000
        /\ traitVector.intensityScale = 5000
        /\ traitVector.motionTempo = 5000
        /\ creature # None => creature.body.plan = "bilateral"

\* The creature of an agent without traits has been generated.
C9_Witness ==
    /\ traitInput # None
    /\ Len(traitInput.traits) = 0
    /\ traitVector # None
    /\ creature # None
    /\ creature.body.plan = "bilateral"

\* C11: for every list of trait strings (words of the vocabulary, partial
\* matches and unknown words, mixed) and every seed, each of the four fields
\* of the vector traitsToVector returns lies in [0, 1].
C11_VectorRange ==
    traitVector # None =>
        /\ traitVector.geometricOrganic \in 0..T
        /\ traitVector.connectedIsolated \in 0..T
        /\ traitVector.intensityScale \in 0..T
        /\ traitVector.motionTempo \in 0..T

\* Three traits have been aggregated, the unknown word among them.
C11_Witness ==
    /\ traitVector # None
    /\ Len(traitInput.traits) = 3
    /\ traitInput.traits[2] = Unknown
    /\ traitInput.traits[1] # Unknown

\* C12 as stated: the vocabulary vectors of "helpful" and of "thorough" both
\* have connectedIsolated below 0.2.
C12_BothLow ==
    (traitVector # None /\ traitInput.traits \in {<<Helpful>>, <<Thorough>>}) =>
        traitVector.connectedIsolated < 2000

\* C12 amended: the vocabulary vector of "helpful" has connectedIsolated 0.15,
\* below 0.2, and that of "thorough" has connectedIsolated 0.75, above it.
C12_HelpfulLow ==
    traitVector # None =>
        /\ traitInput.traits = <<Helpful>> => traitVector.connectedIsolated = 1500
        /\ traitInput.traits = <<Thorough>> => traitVector.connectedIsolated = 7500

\* The single trait "thorough" has been looked up and aggregated.
C12_Witness ==
    /\ traitVector # None
    /\ traitInput.traits = <<Thorough>>
    /\ traitVector.geometricOrganic = 2500

\* The traits lowercased and trimmed.
Normalized(traits) == [i \in 1..Len(traits) |-> trim(toLowerCase(traits[i]))]

\* C21: trait lookup is insensitive to case and surrounding white space: a
\* list of traits and the list of the same traits lowercased and trimmed give
\* the same vector for the same seed, whether the traits resolve by exact
\* match, by substring match or by the hash fallback.
C21_CaseInsensitive ==
    traitVector # None =>
        traitVector = traitsToVector(Normalized(traitInput.traits), traitInput.seed)

---------------------------------------------------------------------------
(* Properties of hashString (SpecHash).                                    *)

\* C15: for every string, hashString returns a non-negative integer that
\* fits in 32 bits (the magnitude of a signed 32-bit hash: at most 2^31, a
\* word whose sign bit is set only for 2^31 itself), and hashing an equal
\* string again returns the same seed.
C15_Seed ==
    hashValue # None =>
        /\ hashValue.seed[1] \in 0..(W16 - 1)
        /\ hashValue.seed[2] \in 0..(W16 - 1)
        /\ hashValue.seed[1] < 32768 \/ hashValue.seed = <<32768, 0>>
        /\ prevHashValue # None => hashValue = prevHashValue

\* The string whose hash wraps to -2^31 has been hashed twice: 2^31 both times.
C15_Witness ==
    /\ hashInput = WrapsToMinimum
    /\ hashValue = [seed |-> <<32768, 0>>]
    /\ prevHashValue = hashValue

---------------------------------------------------------------------------
(* Properties of the seeded PRNGs (SpecRandom).                            *)

\* a <= b for two words.
LeqW(a, b) == a[1] < b[1] \/ (a[1] = b[1] /\ a[2] <= b[2])

\* The largest numerator below the denominator of a closure: 2^32 - 1 for
\* createSeededRandom, 0x7fffffff - 1 for seededRandom.
LargestBelowOne(kind) ==
    IF kind = "createSeededRandom" THEN <<65535, 65535>> ELSE <<32767, 65534>>

\* C16: every value v a seeded PRNG returns (createSeededRandom of the
\* generators, seededRandom of the particle engine) satisfies 0 <= v < 1;
\* 1.0 is returned for no seed and after no number of calls.
C16_BelowOne ==
    drawn # None =>
        /\ drawn.numerator[1] >= 0
        /\ drawn.numerator[2] >= 0
        /\ LeqW(drawn.numerator, LargestBelowOne(generator.kind))

\* The closure of seededRandom seeded with 230538014 has been called once:
\* it returned 0, the product having been rounded to a double.
C16_Witness ==
    /\ generator # None
    /\ generator.kind = "seededRandom"
    /\ generator.calls = 1
    /\ generator.state = 0
    /\ drawn = [numerator |-> <<0, 0>>]

---------------------------------------------------------------------------
(* Properties of the body mesh (SpecMesh).                                 *)

\* The indices of triangle i (0-based) of the mesh.
TriangleAt(i) ==
    <<bodyBuffers.indices[(i * 3) + 1],
      bodyBuffers.indices[(i * 3) + 2],
      bodyBuffers.indices[(i * 3) + 3]>>

\* C20: generateBodyBuffers produces resolution + 1 vertices, with edgeFactor
\* 0 for the centre vertex (index 0) and 1 for every perimeter vertex, and
\* exactly `resolution` triangles (0, i + 1, ((i + 1) mod resolution) + 1):
\* a closed centre fan, every index of which lies in [0, resolution].
C20_CentreFan ==
    bodyBuffers # None =>
        /\ bodyBuffers.vertexCount = creature.body.resolution + 1
        /\ Len(bodyBuffers.edgeFactors) = creature.body.resolution + 1
        /\ bodyBuffers.edgeFactors[1] = 0
        /\ \A v \in 2..(creature.body.resolution + 1) : bodyBuffers.edgeFactors[v] = T
        /\ bodyBuffers.triangleCount = creature.body.resolution
        /\ Len(bodyBuffers.indices) = creature.body.resolution * 3
        /\ \A i \in 0..(creature.body.resolution - 1) :
              TriangleAt(i) = <<0, i + 1, ((i + 1) % creature.body.resolution) + 1>>
        /\ \A k \in 1..Len(bodyBuffers.indices) :
              bodyBuffers.indices[k] \in 0..creature.body.resolution
        /\ TriangleAt(creature.body.resolution - 1)[3] = TriangleAt(0)[2]

\* The mesh of an asymmetric elder body has been built, at the highest
\* resolution of the creatures explored.
C20_Witness ==
    /\ bodyBuffers # None
    /\ creature.body.plan = "asymmetric"
    /\ creature.maturity.stage = "elder"
    /\ bodyBuffers.triangleCount > 32

---------------------------------------------------------------------------
(* Properties of the particle engine (SpecParticles, SpecLegacy).          *)

\* The lengths of the typed arrays of the hook.
BufferLengths ==
    [positions |-> Len(buffers.positions),
     trailPositions |-> Len(buffers.trailPositions),
     sizes |-> Len(buffers.sizes),
     ages |-> Len(buffers.ages),
     colors |-> Len(buffers.colors),
     trailIndices |-> Len(buffers.trailIndices),
     respawnData |-> Len(buffers.respawnData),
     headPositions |-> Len(headPositions),
     respawnCounters |-> Len(respawnCounters)]

\* The respawn-pool entries stored for particle p, as <<x, y>>.
PoolOf(p) ==
    {<<buffers.respawnData[(((p * 16) + r) * 2) + 1],
       buffers.respawnData[(((p * 16) + r) * 2) + 2]>> :
        r \in {r \in 0..15 : (((p * 16) + r) * 2) + 2 <= Len(buffers.respawnData)}}

\* The head position of particle p.
HeadOf(p) == <<headPositions[(p * 3) + 1], headPositions[(p * 3) + 2]>>

\* The index of the head vertex of particle p.
HeadIdx(p) == p * (Len(buffers.ages) \div particleParams.particleCount)

\* C2: over every sequence of update calls the length of every buffer stays
\* what it was at allocation, and every position assigned on respawn is read
\* from the respawn pool precomputed at allocation, no closure of
\* seededRandom being created during update.
C2_FixedPool ==
    [][/\ BufferLengths' = BufferLengths
       /\ \A p \in respawned' : HeadOf(p)' \in PoolOf(p)
       /\ randomSources' = randomSources]_vars

\* C7: in the update call in which the head of a particle leaves the box, its
\* head position at the end of the call is one of the 16 pool entries stored
\* for the same particle index.
C7_OwnPool ==
    \A p \in respawned :
        /\ HeadOf(p) \in PoolOf(p)
        /\ <<buffers.positions[(HeadIdx(p) * 3) + 1],
             buffers.positions[(HeadIdx(p) * 3) + 2]>> \in PoolOf(p)

\* Particle 1 has respawned for the second time.
C7_Witness == 1 \in respawned /\ respawnCounters[2] = 2

\* C8 as stated: the age at the head slot of a respawned particle, read after
\* the update call that respawned it, is exactly 0.
C8_AgeZero == \A p \in respawned : buffers.ages[HeadIdx(p) + 1] = 0

\* C8 amended: after the update call that respawned a particle the age at its
\* head slot is min(delta, 0.05) * 0.5, and the age of the slot behind the
\* head is 0.
C8_AgeAfterRespawn ==
    [][\A p \in respawned' :
          /\ buffers'.ages[HeadIdx(p) + 1] =
                (IF time' - time < 500 THEN time' - time ELSE 500) \div 2
          /\ buffers'.ages[HeadIdx(p) + 2] = 0]_vars

\* A particle has respawned in a frame whose delta is below the cap.
C8_Witness ==
    \E p \in respawned : buffers.ages[HeadIdx(p) + 1] = 150

\* The particle indices of the hook.
Particles == 0..(particleParams.particleCount - 1)

\* trailSegments, from the length of the ages buffer.
Segments == Len(buffers.ages) \div particleParams.particleCount

\* The age at trail slot t of particle p.
AgeAt(p, t) == buffers.ages[HeadIdx(p) + t + 1]

\* The vertex <<x, y, z>> at trail slot t of particle p.
VertexAt(p, t) ==
    <<buffers.positions[((HeadIdx(p) + t) * 3) + 1],
      buffers.positions[((HeadIdx(p) + t) * 3) + 2],
      buffers.positions[((HeadIdx(p) + t) * 3) + 3]>>

\* C17: after any sequence of update calls with delta >= 0 every entry of
\* the ages buffer lies in [0, 1], and in a call that does not respawn a
\* particle its head age does not decrease: it grows by min(delta, 0.05) / 2
\* up to 1, where it stays.
C17_Ages ==
    /\ [](\A i \in 1..Len(buffers.ages) : buffers.ages[i] \in 0..T)
    /\ [][\A p \in Particles \ respawned' :
             /\ AgeAt(p, 0)' >= AgeAt(p, 0)
             /\ AgeAt(p, 0)' <= AgeAt(p, 0) + (MaxDelta \div 2)
             /\ AgeAt(p, 0) = T => AgeAt(p, 0)' = T]_vars

\* The head age of a particle that did not respawn has reached 1.
C17_Witness ==
    /\ lastUpdate # None
    /\ lastUpdate.delta > 0
    /\ \E p \in Particles \ respawned : AgeAt(p, 0) = T

\* C18: update(time, delta) with delta above 0.05 leaves the buffers, the
\* head positions and the respawn counters as update(time, 0.05) would.
C18_DeltaCapped ==
    [][lastUpdate'.delta > MaxDelta =>
          /\ buffers'.positions =
                updateLoop(loopState, 0, particleParams, buffers.respawnData,
                           lastUpdate'.flows, MaxDelta).positions
          /\ buffers'.ages =
                updateLoop(loopState, 0, particleParams, buffers.respawnData,
                           lastUpdate'.flows, MaxDelta).ages
          /\ headPositions' =
                updateLoop(loopState, 0, particleParams, buffers.respawnData,
                           lastUpdate'.flows, MaxDelta).headPositions
          /\ respawnCounters' =
                updateLoop(loopState, 0, particleParams, buffers.respawnData,
                           lastUpdate'.flows, MaxDelta).respawnCounters]_vars

\* A frame longer than the cap has moved the particles.
C18_Witness ==
    /\ lastUpdate # None
    /\ lastUpdate.delta > MaxDelta
    /\ headPositions # headPositionsOf(particleParams, buffers.trailPositions)

\* C19: in an update call in which particle p does not respawn, trail slot t
\* of p (1 <= t < trailSegments) afterwards holds the position and the age
\* slot t - 1 of p held before, slot 0 holds the new head position, and no
\* slot of another particle is changed by the shift: every slot of a
\* particle respawned in the call holds that particle's own respawn position.
C19_TrailShift ==
    [][/\ \A p \in Particles \ respawned' :
             /\ \A t \in 1..(Segments - 1) :
                    /\ VertexAt(p, t)' = VertexAt(p, t - 1)
                    /\ AgeAt(p, t)' = AgeAt(p, t - 1)
             /\ VertexAt(p, 0)' = <<HeadOf(p)[1]', HeadOf(p)[2]', VertexZ>>
       /\ \A q \in respawned' :
             \A t \in 0..(Segments - 1) :
                 /\ VertexAt(q, t)'[1] = HeadOf(q)[1]'
                 /\ VertexAt(q, t)'[2] = HeadOf(q)[2]']_vars

\* Two calls have shifted a trail that did not respawn: its three slots hold
\* three different positions.
C19_Witness ==
    /\ lastUpdate # None
    /\ \E p \in Particles \ respawned :
          /\ VertexAt(p, 0) # VertexAt(p, 1)
          /\ VertexAt(p, 1) # VertexAt(p, 2)

---------------------------------------------------------------------------
(* Properties of the flow field (SpecFlow) and of the eyes (Spec).                              *)

\* C22: the CPU sampler and the shader compute the same field: the same
\* octaves, the same warp layers with the same offsets, the same final FBM.
C22_SameField ==
    flowSample # None => flowSample.cpu.f0 = flowSample.gpu.f

\* C23: the size of every generated eye is within the documented range
\* [0.08, 0.22].
C23_EyeSize ==
    creature # None =>
        \A i \in 1..Len(creature.eyes) :
            /\ 800 <= creature.eyes[i].size
            /\ creature.eyes[i].size <= 2200

---------------------------------------------------------------------------
(* Properties of the wild body (SpecWild).                                 *)

\* C24: a cosmic body is one N-sided polygon: every perimeter vertex of one
\* generateBodyBuffers call is placed with the same side count.
C24_OneSideCount ==
    (bodyBuffers # None /\ bodyBuffers.isCosmic) =>
        \A v, w \in 1..Len(bodyBuffers.sides) :
            bodyBuffers.sides[v] = bodyBuffers.sides[w]

---------------------------------------------------------------------------
(* The last session count of the mature band (SpecMaturity).               *)

---------------------------------------------------------------------------
(* Properties of the stored heads (SpecHeads).                             *)

\* C26: after allocation and after every update call the head of every
\* particle is within the box: -1.1 <= x <= 1.1 and -1.1 <= y <= 1.1.
C26_HeadsInBox ==
    heads # None =>
        /\ 0 - BoxEdge32 <= heads.x /\ heads.x <= BoxEdge32
        /\ 0 - BoxEdge32 <= heads.y /\ heads.y <= BoxEdge32

---------------------------------------------------------------------------
(* Properties of a remounted view (SpecRemount).                           *)

\* C27: when the buffers are reallocated because the seed changes, the
\* respawn counters start again at 0, so that what update does afterwards
\* depends on the new buffers and on its arguments only.
C27_CountersRestart ==
    [][particleParams'.seed # particleParams.seed =>
          respawnCounters' = newRespawnCounters(particleParams')]_vars

---------------------------------------------------------------------------
(* Properties of the export hook (SpecExport).                             *)

\* C28: while an export started by startExport is running, the phase the
\* hook reports is never idle.
C28_NeverIdle ==
    (exporter # None /\ exporter.running # "none") => exporter.progress # "idle"

---------------------------------------------------------------------------
(* Properties of the animation hook (SpecRerender, SpecBlink).             *)

\* C29: whatever creatures one hook instance is rendered with, the animation
\* state holds exactly one eye state per eye of the current creature, and
\* update never reads an eye config at an index that creature does not have.
C29_OneStatePerEye ==
    animation # None =>
        /\ Len(animation.eyes) = Len(animation.creature.eyes)
        /\ ~animation.thrown

EyeOpen(i) ==
    /\ animation # None
    /\ i <= Len(animation.eyes)
    /\ ~animation.eyes[i].isBlinking

EyeBlinking(i) ==
    /\ animation # None
    /\ i <= Len(animation.eyes)
    /\ animation.eyes[i].isBlinking

BlinkAmountInRange ==
    animation # None =>
        \A i \in 1..Len(animation.eyes) :
            /\ animation.eyes[i].blinkAmount >= 0
            /\ animation.eyes[i].blinkAmount <= T
            /\ ~animation.eyes[i].isBlinking => animation.eyes[i].blinkAmount = 0

\* C30: under update calls frame after frame, an open eye eventually starts
\* a blink, a blink that has started eventually ends with isBlinking false
\* and blinkAmount 0, blinkAmount stays within [0, 1], and it is 0 whenever
\* isBlinking is false.
C30_Blinks ==
    /\ []BlinkAmountInRange
    /\ \A i \in 1..MaxAnimatedEyes :
          /\ EyeOpen(i) ~> EyeBlinking(i)
          /\ EyeBlinking(i) ~> (EyeOpen(i) /\ animation.eyes[i].blinkAmount = 0)

\* A blink has ended: the eye is open with the timer of its next blink just
\* drawn.
C30_Witness ==
    /\ animation # None
    /\ Len(animation.eyes) = 1
    /\ \E hashed \in HashedValues :
          animation.eyes[1] =
              completeBlink(animation.eyes[1],
                            animation.creature.eyes[1].behavior, hashed)

=============================================================================
